---- MODULE Spec2Model ----
(***************************************************************************)
(* Value-flow-graph model extraction (lz3450/model_extraction).            *)
(*                                                                         *)
(* The base graph is the VFG object of src/model_extraction/vfg.py: a node *)
(* table, a set of edge OBJECTS and, per node, the set of edge objects     *)
(* incident to it.  VFGEdge defines neither __eq__ nor __hash__, so an     *)
(* edge is identified by its object identity (here: its edge id), and its  *)
(* source/target fields are mutable (VFGEdge.reverse).  A VFG returned by  *)
(* get_subgraph has its own node table and edge set but shares the node    *)
(* and edge objects, hence the adjacency sets, with the base graph.        *)
(*                                                                         *)
(* A node is named by its numeric analysis id (the name <-> id conversion  *)
(* is the lookup in the node table).  A text is a sequence of symbols; the *)
(* separator " → " of the labels is one symbol.                            *)
(***************************************************************************)
EXTENDS Integers, Sequences, FiniteSets, TLC

\* ------------------------------------------------------------------ bounds
NumNodes == 3
MaxNodes == 4
MaxFuseEdges == 4
MaxInitEdges == 3
MaxSeeds == 2
MaxNewEdges == 4
MaxCalls == 2
MaxModelEdges == 2
MaxStitchEdges == 1
MaxPathEdges == 3
RecursionLimit == 4

Names == 1..MaxNodes
EdgeIds == 1..(MaxInitEdges + MaxNewEdges)
NoNode == 0

VARIABLES
    \* the base VFG
    nodes,              \* VFG._nodes: the names in the node table
    edges,              \* VFG._edges: the edge objects of the graph
    esrc,               \* VFGEdge._source of every edge object (NoNode: not created)
    etgt,               \* VFGEdge._target
    adj,                \* VFGNode._edges of every node
    \* the fields of the VFGNode objects
    ntype,              \* VFGNode._type
    label,              \* VFGNode._label
    ir,                 \* VFGNode._ir
    params,             \* VFGNode._params   (NoAttr: the attribute was never set)
    vname,              \* VFGNode._variable_name (NoAttr: never set)
    site,               \* (VFGNode._function, VFGNode._basic_block); 0: ('', '')
    \* get_subgraph
    node_ids,           \* the seed list of the running call
    seed_i,             \* position of the seed whose _dfs calls come next
    seed_dir,           \* direction of the next top-level _dfs call
    forward_visited,
    backward_visited,
    stack,              \* the _dfs frames: [node, dir, todo]
    entered,            \* history: how often _dfs entered a node, per direction
    subNodes,           \* the VFG get_subgraph returned last: its _nodes
    subEdges,           \* the VFG get_subgraph returned last: its _edges
    \* extract_model and its passes
    ids,                \* the seed set of extract_model
    scan,               \* what the running for loop has still to go through
    disc,               \* nodes_to_disconnect of the running pass
    cur,                \* the node the running loop over the nodes is at
    round,              \* how often the stitcher has been started (0: inside extract_model)
    it,                 \* `it` of _merge_gep_gep: the turns of its loop begun so far
    \* the path-based Model of src/model_builder
    lower_nodes,        \* VFGNode._lower_nodes of every node (model_builder/vfg.py)
    upper_nodes,        \* VFGNode._upper_nodes of every node
    parm,               \* VFGNode._parm  (NoAttr: the attribute was never set)
    args,               \* VFGNode._args  (NoAttr: never set)
    source_sink_vfg_nodes,
    paths,              \* the list `paths` of Model._get_vfg_path
    callstack,          \* the frames of the running recursive walk
    todo,               \* what the running outer for loop has still to go through
    run,                \* the source/sink node _get_vfg_path is at, and its calls to come
    \* the DOT codecs
    codec,              \* whose reader and writer run: "read_vfg" or "Graph"
    dot_file,           \* the text the reader is given: its node and edge lines
    graph,              \* the object the reader returned last
    parsed,             \* history: every object a reader has returned
    output,             \* history: every text a writer has written
    \* Model._opt of src/model_builder
    matched,            \* the matches self.pattern.finditer has yielded: [pattern, start, end]
    need_reverse,
    model_path,         \* the ids of the ModelNode objects appended to model_path
    model_nodes,        \* Model.nodes: the ModelNode objects, [id, type]
    model_lower,        \* ModelNode._lower_nodes, as pairs <<id of the node, id of the lower node>>
    \* history
    call,               \* the last call on the graph interface and how it ended
    pre,                \* the edges and their directions at the last checkpoint
    rev,                \* how often VFGEdge.reverse ran on every edge object
    pc,
    err                 \* the exception that ended the call ("none": none)

gvars == <<nodes, edges, esrc, etgt, adj>>
avars == <<ntype, label, ir, params, vname, site>>
dvars == <<node_ids, seed_i, seed_dir, forward_visited, backward_visited, stack, entered>>
rvars == <<subNodes, subEdges>>
pvars == <<ids, scan, disc, cur, round, it>>
hvars == <<call, pre, rev>>
bvars == <<lower_nodes, upper_nodes, parm, args, source_sink_vfg_nodes, paths, callstack, todo, run>>
cvars == <<codec, dot_file, graph, parsed, output>>
mvars == <<matched, need_reverse, model_path, model_nodes, model_lower>>
vars == <<gvars, avars, bvars, cvars, mvars, dvars, rvars, pvars, hvars, pc, err>>

\* ------------------------------------------------------------- helpers
MinOf(S) == CHOOSE x \in S : \A y \in S : x <= y

RECURSIVE SumOver(_, _)
SumOver(f, S) == IF S = {} THEN 0
                 ELSE LET x == CHOOSE y \in S : TRUE IN f[x] + SumOver(f, S \ {x})

Occurrences(s, x) == Cardinality({i \in 1..Len(s) : s[i] = x})

\* ---------------------------------------------------------------- texts
Arrow == " → "
NoAttr == "<unset>"

\* Python's `a in b` on strings.
IsSubstr(a, b) == \E i \in 0..(Len(b) - Len(a)) : SubSeq(b, i + 1, i + Len(a)) = a

\* Python's b.split(sep) for a one-symbol separator.
RECURSIVE Split(_, _)
Split(s, sep) ==
    IF \A i \in 1..Len(s) : s[i] # sep THEN <<s>>
    ELSE LET i == MinOf({j \in 1..Len(s) : s[j] = sep})
         IN <<SubSeq(s, 1, i - 1)>> \o Split(SubSeq(s, i + 1, Len(s)), sep)

\* Python's sep.join(parts).
RECURSIVE Join(_, _)
Join(parts, sep) ==
    IF parts = <<>> THEN <<>>
    ELSE IF Len(parts) = 1 THEN parts[1]
    ELSE parts[1] \o <<sep>> \o Join(Tail(parts), sep)

LastOf(s) == s[Len(s)]

\* ------------------------------------------------------ the graph objects
\* Edge objects that exist (have been constructed).
Created == {e \in EdgeIds : esrc[e] # NoNode}

\* The edge objects and the adjacency sets as one value: [edges, esrc, etgt, adj, ok];
\* ok is FALSE when the model has run out of edge ids.
Cur == [edges |-> edges, esrc |-> esrc, etgt |-> etgt, adj |-> adj, ok |-> TRUE]

SetGraph(g) ==
    /\ edges' = g.edges /\ esrc' = g.esrc /\ etgt' = g.etgt /\ adj' = g.adj

\* VFG.get_name_from_id: the node with that id, or ValueError.
HasId(id) == id \in nodes

\* add_edge without the test of the endpoints (a variant).
AddEdgeUnguarded(g, N, s, t) ==
    LET free == {e \in EdgeIds : g.esrc[e] = NoNode} IN
    IF free = {} THEN [g EXCEPT !.ok = FALSE]
    ELSE LET e == MinOf(free) IN
         [g EXCEPT !.edges = @ \cup {e}, !.esrc[e] = s, !.etgt[e] = t,
                   !.adj = [n \in Names |-> IF n = s \/ n = t THEN @[n] \cup {e} ELSE @[n]]]

\* VFG.add_edge on the VFG with node table N: VFGEdge(s, t) is constructed and,
\* when both endpoints are in the table, put into the edge set and into both
\* adjacency sets; otherwise a warning is logged and nothing else happens.
AddEdge(g, N, s, t) ==
    IF s \notin N \/ t \notin N THEN g
    ELSE LET free == {e \in EdgeIds : g.esrc[e] = NoNode} IN
         IF free = {} THEN [g EXCEPT !.ok = FALSE]
         ELSE LET e == MinOf(free) IN
              [g EXCEPT !.edges = @ \cup {e}, !.esrc[e] = s, !.etgt[e] = t,
                        !.adj = [n \in Names |-> IF n = s \/ n = t THEN @[n] \cup {e} ELSE @[n]]]

\* for upper_node_name in source_node.upper_node_names: vfg.add_edge(VFGEdge(upper, t)),
\* S being the incoming edge objects of the source node the loop goes through.
RECURSIVE AddEdgesTo(_, _, _, _)
AddEdgesTo(g, N, S, t) ==
    IF S = {} THEN g
    ELSE LET e == MinOf(S) IN AddEdgesTo(AddEdge(g, N, g.esrc[e], t), N, S \ {e}, t)

\* remove_edge that leaves the adjacency set of the target as it is (a variant).
RemoveEdgeFromSourceOnly(g, N, e) ==
    IF e \notin g.edges THEN [g |-> g, err |-> "KeyError"]
    ELSE LET s == g.esrc[e]
             g1 == [g EXCEPT !.edges = @ \ {e}]
         IN IF s \in N /\ e \notin g1.adj[s] THEN [g |-> g1, err |-> "KeyError"]
            ELSE [g |-> IF s \in N THEN [g1 EXCEPT !.adj[s] = @ \ {e}] ELSE g1, err |-> "none"]

\* VFG.remove_edge on the VFG with node table N and edge set g.edges:
\* set.remove raises KeyError when the edge is not in the set it is removed from,
\* which is the case of the second removal of a self-loop from its node.
RemoveEdge(g, N, e) ==
    IF e \notin g.edges THEN [g |-> g, err |-> "KeyError"]
    ELSE LET s == g.esrc[e]
             t == g.etgt[e]
             g1 == [g EXCEPT !.edges = @ \ {e}]
         IN IF s \in N /\ e \notin g1.adj[s] THEN [g |-> g1, err |-> "KeyError"]
            ELSE LET g2 == IF s \in N THEN [g1 EXCEPT !.adj[s] = @ \ {e}] ELSE g1
                 IN IF t \in N /\ e \notin g2.adj[t] THEN [g |-> g2, err |-> "KeyError"]
                    ELSE [g |-> IF t \in N THEN [g2 EXCEPT !.adj[t] = @ \ {e}] ELSE g2,
                          err |-> "none"]

RECURSIVE RemoveEdges(_, _, _)
RemoveEdges(g, N, S) ==
    IF S = {} THEN g
    ELSE LET e == MinOf(S) IN RemoveEdges(RemoveEdge(g, N, e).g, N, S \ {e})

\* VFG.disconnect_node: remove_edge for every edge of a copy of the node's
\* adjacency set, in the order the set yields them; the first remove_edge that
\* raises ends the loop.  The outcomes, over all orders: [g, err].
DisconnectNode(g, N, n) ==
    IF n \notin N THEN {[g |-> g, err |-> "KeyError"]}
    ELSE LET bad == {e \in g.adj[n] : RemoveEdge(g, N, e).err # "none"}
             good == g.adj[n] \ bad
         IN IF bad = {} THEN {[g |-> RemoveEdges(g, N, good), err |-> "none"]}
            ELSE {RemoveEdge(RemoveEdges(g, N, S), N, b) : S \in SUBSET good, b \in bad}

\* ---------------------------------------------------------- get_subgraph
\* Variants of the guards of _dfs used to test the claims.
DfsNextUndirected(e, n, d, fv, bv) ==
    LET seen == IF d = "f" THEN fv ELSE bv IN
    IF esrc[e] = n /\ etgt[e] \notin seen THEN etgt[e]
    ELSE IF etgt[e] = n /\ esrc[e] \notin seen THEN esrc[e]
    ELSE NoNode

DfsNextNoVisitedCheck(e, n, d, fv, bv) ==
    IF d = "f" /\ esrc[e] = n THEN etgt[e]
    ELSE IF d = "b" /\ etgt[e] = n THEN esrc[e]
    ELSE NoNode

\* VFG.get_subgraph._dfs, the two guards of the loop over the node's edges:
\* the node the traversal recurses into through edge e, or NoNode.
DfsNext(e, n, d, fv, bv) ==
    IF d = "f" /\ esrc[e] = n /\ etgt[e] \notin fv THEN etgt[e]
    ELSE IF d = "b" /\ etgt[e] = n /\ esrc[e] \notin bv THEN esrc[e]
    ELSE NoNode

\* visited_nodes of get_subgraph.
VisitedNodes(fv, bv) == fv \cup bv

\* visited_edges of get_subgraph: the edges of E (with fields es, et) that
\* have an endpoint in V.
VisitedEdgesBothEnds(E, es, et, V) == {e \in E : es[e] \in V /\ et[e] \in V}
VisitedEdges(E, es, et, V) == {e \in E : es[e] \in V \/ et[e] \in V}

Frame(n, d) == [node |-> n, dir |-> d, todo |-> adj[n]]

Mark(n, d) ==
    /\ forward_visited' = IF d = "f" THEN forward_visited \cup {n} ELSE forward_visited
    /\ backward_visited' = IF d = "b" THEN backward_visited \cup {n} ELSE backward_visited
    /\ entered' = [entered EXCEPT ![d][n] = @ + 1]

\* for node_id in node_ids: _dfs(name, 'f'); _dfs(name, 'b')
SubSeedCall ==
    /\ pc = "sub" /\ stack = <<>> /\ seed_i <= Len(node_ids)
    /\ LET id == node_ids[seed_i] IN
       IF ~HasId(id)
       THEN /\ pc' = "error" /\ err' = "ValueError"
            /\ UNCHANGED <<gvars, avars, bvars, cvars, mvars, dvars, rvars, pvars, hvars>>
       ELSE /\ Mark(id, seed_dir)
            /\ stack' = <<Frame(id, seed_dir)>>
            /\ seed_dir' = IF seed_dir = "f" THEN "b" ELSE "f"
            /\ seed_i' = IF seed_dir = "f" THEN seed_i ELSE seed_i + 1
            /\ UNCHANGED <<gvars, avars, bvars, cvars, mvars, rvars, pvars, hvars, node_ids, pc, err>>

\* One turn of `for edge in current_node` in the innermost _dfs frame.
DfsEdge ==
    /\ pc = "sub" /\ stack # <<>>
    /\ LET top == stack[Len(stack)] IN
       \E e \in top.todo :
         LET nxt == DfsNext(e, top.node, top.dir, forward_visited, backward_visited)
             rest == [stack EXCEPT ![Len(stack)].todo = @ \ {e}]
         IN IF nxt = NoNode
            THEN /\ stack' = rest
                 /\ UNCHANGED <<forward_visited, backward_visited, entered, pc, err>>
            ELSE IF nxt \notin nodes
            THEN /\ Mark(nxt, top.dir)
                 /\ stack' = rest
                 /\ pc' = "error" /\ err' = "KeyError"
            ELSE /\ Mark(nxt, top.dir)
                 /\ stack' = Append(rest, Frame(nxt, top.dir))
                 /\ UNCHANGED <<pc, err>>
    /\ UNCHANGED <<gvars, avars, bvars, cvars, mvars, rvars, pvars, hvars, node_ids, seed_i, seed_dir>>

\* The innermost _dfs frame has gone through all its edges and returns.
DfsReturn ==
    /\ pc = "sub" /\ stack # <<>>
    /\ stack[Len(stack)].todo = {}
    /\ stack' = SubSeq(stack, 1, Len(stack) - 1)
    /\ UNCHANGED <<gvars, avars, bvars, cvars, mvars, rvars, pvars, hvars, node_ids, seed_i, seed_dir,
                   forward_visited, backward_visited, entered, pc, err>>

\* A variant of the return: the nodes of the subgraph keep only the edges of
\* the subgraph in their adjacency sets.
SubReturnDetaching ==
    /\ pc = "sub" /\ stack = <<>> /\ seed_i > Len(node_ids)
    /\ subNodes' = VisitedNodes(forward_visited, backward_visited)
    /\ subEdges' = VisitedEdges(edges, esrc, etgt,
                                VisitedNodes(forward_visited, backward_visited))
    /\ adj' = [n \in Names |-> IF n \in forward_visited THEN {e \in adj[n] : esrc[e] \in forward_visited /\ etgt[e] \in forward_visited} ELSE adj[n]]
    /\ pc' = "done"
    /\ UNCHANGED <<nodes, edges, esrc, etgt, avars, bvars, cvars, mvars, dvars, pvars, hvars, err>>

\* return VFG(visited_nodes, visited_edges)
SubReturn ==
    /\ pc = "sub" /\ stack = <<>> /\ seed_i > Len(node_ids)
    /\ subNodes' = VisitedNodes(forward_visited, backward_visited)
    /\ subEdges' = VisitedEdges(edges, esrc, etgt,
                                VisitedNodes(forward_visited, backward_visited))
    /\ pc' = "done"
    /\ UNCHANGED <<gvars, avars, bvars, cvars, mvars, dvars, pvars, hvars, err>>

SubNext == SubSeedCall \/ DfsEdge \/ DfsReturn \/ SubReturn

\* ------------------------------------------------- inputs of get_subgraph
\* The graphs a file of at most m edge lines over the nodes 1..k loads
\* (read_vfg: one edge object per line, parallel edges and self-loops
\* included), listed up to the order of the lines.
PairIndex(s, t) == (s - 1) * MaxNodes + t

InitGraphs(k, m) ==
    {g \in UNION {[1..j -> (1..k) \X (1..k)] : j \in 0..m} :
        \A i \in 1..(Len(g) - 1) :
            PairIndex(g[i][1], g[i][2]) <= PairIndex(g[i + 1][1], g[i + 1][2])}

SeedLists == UNION {[1..m -> 1..NumNodes] : m \in 1..MaxSeeds}

LoadGraph(k, g) ==
    /\ nodes = 1..k
    /\ edges = 1..Len(g)
    /\ esrc = [e \in EdgeIds |-> IF e <= Len(g) THEN g[e][1] ELSE NoNode]
    /\ etgt = [e \in EdgeIds |-> IF e <= Len(g) THEN g[e][2] ELSE NoNode]
    /\ adj = [n \in Names |-> {e \in 1..Len(g) : g[e][1] = n \/ g[e][2] = n}]

\* Nodes whose kind and texts play no part: "<Kind> ID: <n>" with the IR "(none)".
PlainNodes ==
    /\ ntype = [n \in Names |-> "NullPtrVFGNode"]
    /\ label = [n \in Names |-> <<>>]
    /\ ir = [n \in Names |-> <<>>]
    /\ params = [n \in Names |-> NoAttr]
    /\ vname = [n \in Names |-> NoAttr]
    /\ site = [n \in Names |-> 0]

\* No get_subgraph call is running.
NoDfs ==
    /\ node_ids = <<>>
    /\ seed_i = 1 /\ seed_dir = "f"
    /\ forward_visited = {} /\ backward_visited = {}
    /\ stack = <<>>
    /\ entered = [d \in {"f", "b"} |-> [n \in Names |-> 0]]

\* extract_model is not running.
NoPipeline ==
    /\ ids = {} /\ scan = {} /\ disc = {} /\ cur = 0 /\ round = 0 /\ it = 0

NoCall == [op |-> "none", n |-> 0, absent |-> FALSE, raised |-> FALSE, same |-> TRUE]

\* No path-based Model is being built.
NoBuilder ==
    /\ lower_nodes = [n \in Names |-> {}]
    /\ upper_nodes = [n \in Names |-> {}]
    /\ parm = [n \in Names |-> NoAttr]
    /\ args = [n \in Names |-> NoAttr]
    /\ source_sink_vfg_nodes = {}
    /\ paths = <<>>
    /\ callstack = <<>>
    /\ todo = {}
    /\ run = [node |-> NoNode, dirs |-> <<>>]

\* No DOT text is being read or written.
NoGraph == [nodes |-> <<>>, edges |-> <<>>]
NoCodec ==
    /\ codec = "none"
    /\ dot_file = NoGraph
    /\ graph = NoGraph
    /\ parsed = <<>>
    /\ output = <<>>

\* Model._opt is not running and no ModelNode exists.
NoOpt ==
    /\ matched = <<>> /\ need_reverse = FALSE
    /\ model_path = <<>> /\ model_nodes = {} /\ model_lower = {}

NoHistory ==
    /\ call = NoCall
    /\ pre = [edges |-> {}, esrc |-> <<>>, etgt |-> <<>>]
    /\ rev = [e \in EdgeIds |-> 0]

SubInit ==
    /\ \E k \in {NumNodes - 1, NumNodes} : \E g \in InitGraphs(k, MaxInitEdges) : LoadGraph(k, g)
    /\ PlainNodes
    /\ node_ids \in SeedLists
    /\ seed_i = 1 /\ seed_dir = "f"
    /\ forward_visited = {} /\ backward_visited = {}
    /\ stack = <<>>
    /\ entered = [d \in {"f", "b"} |-> [n \in Names |-> 0]]
    /\ subNodes = {} /\ subEdges = {}
    /\ NoPipeline /\ NoHistory /\ NoBuilder /\ NoCodec /\ NoOpt
    /\ pc = "sub" /\ err = "none"

SpecSub == SubInit /\ [][SubNext]_vars

\* ------------------------------------------------ claims on get_subgraph
Seeds == {node_ids[i] : i \in 1..Len(node_ids)}

\* Nodes reachable from S along the edges of E (fields es, et), forwards only,
\* backwards only, and whatever the direction.
RECURSIVE FwdReachIn(_, _, _, _)
FwdReachIn(E, es, et, S) ==
    LET nxt == S \cup {et[e] : e \in {x \in E : es[x] \in S}}
    IN IF nxt = S THEN S ELSE FwdReachIn(E, es, et, nxt)

RECURSIVE AnyReachIn(_, _, _, _)
AnyReachIn(E, es, et, S) ==
    LET nxt == S \cup {et[e] : e \in {x \in E : es[x] \in S}}
                 \cup {es[e] : e \in {x \in E : et[x] \in S}}
    IN IF nxt = S THEN S ELSE AnyReachIn(E, es, et, nxt)

FwdReach(S) == FwdReachIn(edges, esrc, etgt, S)
BwdReach(S) == FwdReachIn(edges, etgt, esrc, S)
AnyReach(S) == AnyReachIn(edges, esrc, etgt, S)

\* C1: the node set get_subgraph returns is exactly the union of the nodes
\* reachable from a seed along outgoing edges only and of those reachable
\* along incoming edges only; a node joined to a seed only by a path that
\* changes direction is not returned.
SubgraphNodesAreDirectedReach ==
    pc = "done" => subNodes = FwdReach(Seeds) \cup BwdReach(Seeds)

SubgraphLeavesOutMixedPath ==
    /\ pc = "done"
    /\ Cardinality(subNodes) >= 2
    /\ \E n \in AnyReach(Seeds) : n \notin subNodes

\* C2: the edges get_subgraph returns are exactly the base-graph edges with
\* at least one endpoint among the returned nodes.
SubgraphEdgesTouchReturnedNodes ==
    pc = "done" =>
        \A e \in Created :
            e \in subEdges <=>
                (e \in edges /\ (esrc[e] \in subNodes \/ etgt[e] \in subNodes))

SubgraphHasDanglingAndOmittedEdge ==
    /\ pc = "done"
    /\ \E e \in subEdges : esrc[e] \notin subNodes \/ etgt[e] \notin subNodes
    /\ \E e \in edges : e \notin subEdges

\* A variant of get_subgraph: it is a natural number that every step of the
\* call decreases.
SubMeasure ==
    LET W == Cardinality(EdgeIds) + 2
        callsLeft == 2 * (Len(node_ids) + 1 - seed_i) - (IF seed_dir = "b" THEN 1 ELSE 0)
        unvisited == Cardinality(Names \ forward_visited)
                     + Cardinality(Names \ backward_visited)
        frames == [i \in 1..Len(stack) |-> Cardinality(stack[i].todo) + 1]
    IN (IF pc = "sub" THEN 1 ELSE 0) + W * (callsLeft + unvisited)
       + SumOver(frames, 1..Len(stack))

OnCycle(n) == n \in FwdReach({etgt[e] : e \in {x \in edges : esrc[x] = n}})

\* C4 as stated: get_subgraph terminates and no node is entered more than
\* once by the forward traversal nor more than once by the backward one,
\* whatever the number of seeds.
SubEntersEachNodeOnce ==
    \A d \in {"f", "b"} : \A n \in Names : entered[d][n] <= 1

\* C4 as amended: get_subgraph terminates (every step decreases SubMeasure
\* and a running call always has a next step), the recursive descent never
\* enters a node already visited in its direction, and a node is entered in
\* one direction at most once more than it occurs in the seed list.
SubTerminatesEntersBounded ==
    /\ [][SubMeasure' < SubMeasure]_vars
    /\ [](pc = "sub" => ENABLED SubNext)
    /\ [](\A d \in {"f", "b"} : \A n \in Names :
            entered[d][n] <= 1 + Occurrences(node_ids, n))
    /\ [](\A i \in 2..Len(stack) :
            \A j \in 1..(i - 1) :
                stack[i].dir = stack[j].dir => stack[i].node # stack[j].node)

SubCycleAndSelfLoopDone ==
    /\ pc = "done"
    /\ Len(node_ids) >= 2
    /\ \E n \in subNodes : OnCycle(n) /\ n \notin Seeds
    /\ \E e \in edges : esrc[e] = etgt[e]
    /\ \E n \in Names : entered["f"][n] = 2

\* --------------------------------------------- the graph interface of VFG
\* get_subgraph as a function of the graph and of the seeds: the node set is
\* what the two traversals visit (C1), the edge set is visited_edges.
Subgraph(g, S) ==
    LET V == VisitedNodes(FwdReachIn(g.edges, g.esrc, g.etgt, S),
                          FwdReachIn(g.edges, g.etgt, g.esrc, S))
    IN [nodes |-> V, edges |-> VisitedEdges(g.edges, g.esrc, g.etgt, V)]

Called(op, absent, raised, g, N) ==
    call' = [op |-> op, n |-> call.n + 1, absent |-> absent, raised |-> raised,
             same |-> (g = Cur /\ N = nodes)]

\* vfg.add_edge(VFGEdge(s, t)), s and t any names.
ApiAddEdge ==
    /\ pc = "api" /\ call.n < MaxCalls
    /\ \E s \in 1..NumNodes, t \in 1..NumNodes :
         LET g == AddEdge(Cur, nodes, s, t) IN
         /\ g.ok
         /\ SetGraph(g)
         /\ nodes' = nodes
         /\ err' = "none"
         /\ Called("add_edge", s \notin nodes \/ t \notin nodes, FALSE, g, nodes)
    /\ UNCHANGED <<avars, bvars, cvars, mvars, dvars, rvars, pvars, pre, rev, pc>>

\* vfg.remove_edge(e), e any edge object the caller holds.
ApiRemoveEdge ==
    /\ pc = "api" /\ call.n < MaxCalls
    /\ \E e \in Created :
         LET r == RemoveEdge(Cur, nodes, e) IN
         /\ SetGraph(r.g)
         /\ nodes' = nodes
         /\ err' = r.err
         /\ Called("remove_edge", e \notin edges, r.err # "none", r.g, nodes)
    /\ UNCHANGED <<avars, bvars, cvars, mvars, dvars, rvars, pvars, pre, rev, pc>>

\* vfg.disconnect_node(n)
ApiDisconnectNode ==
    /\ pc = "api" /\ call.n < MaxCalls
    /\ \E n \in 1..NumNodes : \E r \in DisconnectNode(Cur, nodes, n) :
         /\ SetGraph(r.g)
         /\ nodes' = nodes
         /\ err' = r.err
         /\ Called("disconnect_node", n \notin nodes, r.err # "none", r.g, nodes)
    /\ UNCHANGED <<avars, bvars, cvars, mvars, dvars, rvars, pvars, pre, rev, pc>>

\* vfg.remove_node(n): disconnect_node(n), then del self._nodes[n].
ApiRemoveNode ==
    /\ pc = "api" /\ call.n < MaxCalls
    /\ \E n \in 1..NumNodes : \E r \in DisconnectNode(Cur, nodes, n) :
         /\ SetGraph(r.g)
         /\ nodes' = IF r.err = "none" THEN nodes \ {n} ELSE nodes
         /\ err' = r.err
         /\ Called("remove_node", n \notin nodes, r.err # "none", r.g,
                   IF r.err = "none" THEN nodes \ {n} ELSE nodes)
    /\ UNCHANGED <<avars, bvars, cvars, mvars, dvars, rvars, pvars, pre, rev, pc>>

\* vfg.get_subgraph(node_ids)
ApiGetSubgraph ==
    /\ pc = "api" /\ call.n < MaxCalls
    /\ \E l \in SeedLists :
         LET S == {l[i] : i \in 1..Len(l)} IN
         IF \E id \in S : ~HasId(id)
         THEN /\ err' = "ValueError"
              /\ Called("get_subgraph", TRUE, TRUE, Cur, nodes)
              /\ UNCHANGED rvars
         ELSE /\ subNodes' = Subgraph(Cur, S).nodes
              /\ subEdges' = Subgraph(Cur, S).edges
              /\ err' = "none"
              /\ Called("get_subgraph", FALSE, FALSE, Cur, nodes)
    /\ UNCHANGED <<gvars, avars, bvars, cvars, mvars, dvars, pvars, pre, rev, pc>>

ApiNext == ApiAddEdge \/ ApiRemoveEdge \/ ApiDisconnectNode \/ ApiRemoveNode \/ ApiGetSubgraph

ApiInit ==
    /\ \E k \in {NumNodes - 1, NumNodes} : \E g \in InitGraphs(k, MaxInitEdges) : LoadGraph(k, g)
    /\ PlainNodes /\ NoDfs /\ NoPipeline /\ NoHistory /\ NoBuilder /\ NoCodec /\ NoOpt
    /\ subNodes = {} /\ subEdges = {}
    /\ pc = "api" /\ err = "none"

SpecApi == ApiInit /\ [][ApiNext]_vars

\* Every edge of the VFG with node table N and edge set E has both ends in N.
Closed(N, E) == \A e \in E : esrc[e] \in N /\ etgt[e] \in N

\* C10: add_edge with a source or a target that is not a node of the graph
\* fails with an error and leaves the node set, the edge set and every
\* adjacency set as they were.
AddEdgeAbsentEndpointFails ==
    (call.op = "add_edge" /\ call.absent) => (call.raised /\ call.same)

\* What add_edge does keep: with an absent endpoint the graph is unchanged.
AddEdgeAbsentEndpointKeepsGraph ==
    (call.op = "add_edge" /\ call.absent) => call.same

AddEdgeAbsentEndpointCalled ==
    /\ call.op = "add_edge" /\ call.absent /\ edges # {}

\* ------------------------------------------------ the passes of model.py
Front(s) == SubSeq(s, 1, Len(s) - 1)

\* node.incoming_edges / node.outgoing_edges: filters over the adjacency set.
InEdges(g, n) == {x \in g.adj[n] : g.etgt[x] = n}
OutEdges(g, n) == {x \in g.adj[n] : g.esrc[x] = n}

\* Edge objects nothing refers to any more are freed.
Collect(g) ==
    [g EXCEPT !.esrc = [e \in EdgeIds |-> IF e \in g.edges THEN @[e] ELSE NoNode],
              !.etgt = [e \in EdgeIds |-> IF e \in g.edges THEN @[e] ELSE NoNode]]

TripleLeq(x, y) ==
    \/ x[1] < y[1]
    \/ x[1] = y[1] /\ x[2] < y[2]
    \/ x[1] = y[1] /\ x[2] = y[2] /\ x[3] <= y[3]

\* vfg.add_edge(VFGEdge(s, t)) for every <<s, t, i>> of P.
RECURSIVE AddPairs(_, _, _)
AddPairs(g, N, P) ==
    IF P = {} THEN g
    ELSE LET p == CHOOSE x \in P : \A y \in P : TripleLeq(x, y)
         IN AddPairs(AddEdge(g, N, p[1], p[2]), N, P \ {p})

\* vfg.search_nodes(type, node.function, node.basic_block)
SearchNodes(N, type, n) == {m \in N : ntype[m] = type /\ site[m] = site[n]}

\* _connect_actual_param_nodes, matched_nodes of the ActualParm node p.
ParmRetMatched(g, N, p) ==
    {r \in SearchNodes(N, "ActualRetVFGNode", p) :
        IsSubstr(label[p], ir[r]) /\ ~(\E e \in g.adj[p] : g.etgt[e] = r)}

\* _connect_actual_ret_nodes, matched_nodes of the ActualRet node r: a
\* parameter node once for every entry of r.params found in its IR.
RetParmMatched(g, N, r) ==
    UNION {{<<p, r, i>> : i \in {j \in 1..Len(params[r]) : IsSubstr(params[r][j], ir[p])}} :
            p \in {q \in SearchNodes(N, "ActualParmVFGNode", r) :
                     ~(\E e \in g.adj[r] : g.esrc[e] = q)}}

\* The labels the fusions write.
GepGepLabel(ls, lt) == ls \o <<".">> \o Join(Tail(Split(lt, ".")), ".")
GepLoadLabel(ls, lt) == ls \o <<Arrow>> \o Join(Tail(Split(lt, Arrow)), Arrow)
GepStoreLabel(ls, lt) == Join(Front(Split(lt, Arrow)), Arrow) \o <<Arrow>> \o ls
CopyLabel(ls, lt) == Split(ls, Arrow)[1] \o <<Arrow>> \o lt

\* for upper_node_name in source_node.upper_node_names:
\*     vfg.add_edge(VFGEdge(upper_node_name, target_node.name))
\* The generator runs over the adjacency set of the source node s; an add_edge
\* that puts the new edge into that set (the upper node is s itself, or the
\* target is s) makes the next step of the generator raise RuntimeError.
\* The outcomes, over all orders: [g, err].
SpliceUppers(g, N, s, t) ==
    LET inc == InEdges(g, s)
        trig == {x \in inc : g.esrc[x] = s \/ t = s}
    IN IF trig = {} THEN {[g |-> AddEdgesTo(g, N, inc, t), err |-> "none"]}
       ELSE {[g |-> AddEdgesTo(g, N, S \cup {x}, t), err |-> "RuntimeError"] :
                S \in SUBSET (inc \ trig), x \in trig}

\* ids being no nodes of the graph, get_subgraph raises ValueError.
SeedsKnown == \A id \in ids : HasId(id)

Raise(e) == pc' = "error" /\ err' = e

\* _connect_actual_param_nodes: one turn of `while vfg_changed`.
ParmRetIter ==
    /\ pc = "parm_ret"
    /\ IF ~SeedsKnown
       THEN Raise("ValueError") /\ UNCHANGED <<gvars, rvars>>
       ELSE LET g0 == Collect(Cur)
                sub == Subgraph(g0, ids)
                M == UNION {{<<p, r, 1>> : r \in ParmRetMatched(g0, nodes, p)} :
                             p \in {n \in sub.nodes : ntype[n] = "ActualParmVFGNode"}}
                g == AddPairs(g0, nodes, M)
            IN /\ g.ok
               /\ SetGraph(g) /\ nodes' = nodes
               /\ subNodes' = sub.nodes /\ subEdges' = sub.edges
               /\ pc' = IF M = {} THEN "ret_parm" ELSE "parm_ret"
               /\ err' = err
    /\ UNCHANGED <<avars, bvars, cvars, mvars, dvars, pvars, hvars>>

\* _connect_actual_ret_nodes: one turn of `while vfg_changed`.  Reading
\* node.params of an ActualRet node whose IR the pattern missed raises
\* AttributeError, once the nodes of smaller id have been handled.
RetParmIter ==
    /\ pc = "ret_parm"
    /\ LET g0 == Collect(Cur)
           sub == Subgraph(g0, ids)
           rets == {n \in sub.nodes : ntype[n] = "ActualRetVFGNode"}
           bad == {r \in rets : params[r] = NoAttr
                                /\ SearchNodes(nodes, "ActualParmVFGNode", r) # {}}
           stop == IF bad = {} THEN MaxNodes + 1 ELSE MinOf(bad)
           M == UNION {RetParmMatched(g0, nodes, r) : r \in {n \in rets : n < stop}}
           g == AddPairs(g0, nodes, M)
       IN /\ g.ok
          /\ SetGraph(g) /\ nodes' = nodes
          /\ subNodes' = sub.nodes /\ subEdges' = sub.edges
          /\ IF bad # {} THEN Raise("AttributeError")
             ELSE /\ pc' = IF M = {} THEN "stitched" ELSE "ret_parm"
                  /\ err' = err
    /\ UNCHANGED <<avars, bvars, cvars, mvars, dvars, pvars, hvars>>

\* extract_model goes on with _disconnect_actual_formal_parm_nodes.
AfterStitch ==
    /\ pc = "stitched" /\ round = 0
    /\ pc' = "disconnect"
    /\ UNCHANGED <<gvars, avars, bvars, cvars, mvars, dvars, rvars, pvars, hvars, err>>

\* _disconnect_actual_formal_parm_nodes: one turn of `while vfg_changed`;
\* vfg_changed is what the ActualParm node of greatest id leaves in it.
DisconnectIter ==
    /\ pc = "disconnect"
    /\ LET g0 == Collect(Cur)
           sub == Subgraph(g0, ids)
           parms == {n \in sub.nodes : ntype[n] = "ActualParmVFGNode"}
           rm(p) == {e \in OutEdges(g0, p) : ntype[g0.etgt[e]] = "FormalParmVFGNode"}
           last == CHOOSE p \in parms : \A q \in parms : q <= p
           g == RemoveEdges(g0, nodes, UNION {rm(p) : p \in parms})
       IN /\ SetGraph(g) /\ nodes' = nodes
          /\ subNodes' = sub.nodes /\ subEdges' = sub.edges
          /\ pc' = IF parms # {} /\ rm(last) # {} THEN "disconnect" ELSE "grow"
    /\ UNCHANGED <<avars, bvars, cvars, mvars, dvars, pvars, hvars, err>>

\* VFG.get_leaf_nodes is called by _get_leaf_store_nodes and defined nowhere:
\* the nodes with no outgoing edge.
LeafNodes(g, N) == {n \in N : OutEdges(g, n) = {}}

\* _get_leaf_store_nodes
LeafStoreNodes(g, N) == {n \in LeafNodes(g, N) : ntype[n] = "StoreVFGNode"}

\* A variant: only the stores that are nodes of the slice themselves.
AddrStoreNodesInSlice(g, N) ==
    {g.etgt[e] : e \in {x \in UNION {OutEdges(g, a) : a \in {n \in N : ntype[n] = "AddrVFGNode"}} :
                          ntype[g.etgt[x]] = "StoreVFGNode" /\ g.etgt[x] \in N}}

\* _get_addr_store_nodes
AddrStoreNodes(g, N) ==
    {g.etgt[e] : e \in {x \in UNION {OutEdges(g, a) : a \in {n \in N : ntype[n] = "AddrVFGNode"}} :
                          ntype[g.etgt[x]] = "StoreVFGNode"}}

\* The outer loop with another exit test: it is left when the seeds are the
\* whole slice.
SeedGrowthUntilSliceCovered ==
    /\ pc = "grow"
    /\ LET sub == Subgraph(Cur, ids)
           new == ids \cup LeafStoreNodes(Cur, sub.nodes) \cup AddrStoreNodes(Cur, sub.nodes)
       IN /\ ids' = new
          /\ subNodes' = sub.nodes /\ subEdges' = sub.edges
          /\ pc' = IF new = sub.nodes THEN "gep_gep" ELSE "parm_ret"
    /\ UNCHANGED <<gvars, avars, bvars, cvars, mvars, dvars, scan, disc, cur, round, it, hvars, err>>

\* The end of the body of `while True` in extract_model: the seeds grow by the
\* leaf stores and by the stores below the addresses of the slice.
SeedGrowth ==
    /\ pc = "grow"
    /\ LET sub == Subgraph(Cur, ids)
           new == ids \cup LeafStoreNodes(Cur, sub.nodes) \cup AddrStoreNodes(Cur, sub.nodes)
       IN /\ ids' = new
          /\ subNodes' = sub.nodes /\ subEdges' = sub.edges
          /\ pc' = IF new = ids THEN "gep_gep" ELSE "parm_ret"
    /\ UNCHANGED <<gvars, avars, bvars, cvars, mvars, dvars, scan, disc, cur, round, it, hvars, err>>

\* The outcome r of a step of a pass that may raise.
Outcome(r) ==
    /\ r.g.ok
    /\ SetGraph(r.g) /\ nodes' = nodes
    /\ IF r.err = "none" THEN err' = err ELSE Raise(r.err)

\* _merge_gep_gep: one turn of `while vfg_changed` that finds a Gep -> Gep
\* edge, the first one the edge set of the slice yields.
GepGepFuse ==
    /\ pc = "gep_gep"
    /\ it' = it + 1
    /\ LET g0 == Collect(Cur)
           sub == Subgraph(g0, ids)
       IN \E e \in {x \in sub.edges : ntype[g0.esrc[x]] = "GepVFGNode"
                                      /\ ntype[g0.etgt[x]] = "GepVFGNode"} :
            LET s == g0.esrc[e]
                t == g0.etgt[e]
            IN \E r \in SpliceUppers(g0, nodes, s, t) :
                 \E d \in (IF r.err = "none" THEN DisconnectNode(r.g, nodes, s) ELSE {r}) :
                   /\ Outcome(d)
                   /\ label' = [label EXCEPT ![t] = GepGepLabel(label[s], label[t])]
                   /\ subNodes' = sub.nodes /\ subEdges' = sub.edges
                   /\ IF d.err = "none" THEN pc' = "gep_gep" ELSE TRUE
    /\ UNCHANGED <<bvars, cvars, mvars, ntype, ir, params, vname, site, dvars, ids, scan, disc, cur, round, hvars>>

\* _merge_gep_gep: the turn that finds none; _merge_gep_load_store takes its slice.
GepGepEnd ==
    /\ pc = "gep_gep"
    /\ it' = it + 1
    /\ LET g0 == Collect(Cur)
           sub == Subgraph(g0, ids)
       IN /\ \A x \in sub.edges : ~(ntype[g0.esrc[x]] = "GepVFGNode"
                                     /\ ntype[g0.etgt[x]] = "GepVFGNode")
          /\ SetGraph(g0) /\ nodes' = nodes
          /\ subNodes' = sub.nodes /\ subEdges' = sub.edges
          /\ scan' = {x \in sub.edges : ntype[g0.esrc[x]] = "GepVFGNode"
                        /\ ntype[g0.etgt[x]] \in {"LoadVFGNode", "StoreVFGNode"}}
          /\ disc' = {}
          /\ pc' = "gep_ls"
    /\ UNCHANGED <<avars, bvars, cvars, mvars, dvars, ids, cur, round, hvars, err>>

\* _merge_gep_load_store: one turn of the loop over the edges of the slice,
\* for an edge Gep -> Load/Store (the other edges are passed over).
GepLoadStoreEdge ==
    /\ pc = "gep_ls"
    /\ \E e \in scan :
         LET s == esrc[e]
             t == etgt[e]
         IN \E r \in SpliceUppers(Cur, nodes, s, t) :
              /\ Outcome(r)
              /\ scan' = scan \ {e}
              /\ IF r.err = "none"
                 THEN /\ disc' = disc \cup {s}
                      /\ label' = [label EXCEPT ![t] =
                                     IF ntype[t] = "LoadVFGNode"
                                     THEN GepLoadLabel(label[s], label[t])
                                     ELSE GepStoreLabel(label[s], label[t])]
                      /\ pc' = pc
                 ELSE UNCHANGED <<disc, label>>
    /\ UNCHANGED <<bvars, cvars, mvars, ntype, ir, params, vname, site, dvars, rvars, ids, cur, round, it, hvars>>

RECURSIVE DisconnectAll(_, _, _)
DisconnectAll(g, N, D) ==
    IF D = {} THEN g
    ELSE LET n == MinOf(D) IN DisconnectAll(RemoveEdges(g, N, g.adj[n]), N, D \ {n})

\* _merge_gep_load_store: `for node_name in nodes_to_disconnect`, none of which
\* has a self-loop; _merge_copy takes its slice.
GepLoadStoreEnd ==
    /\ pc = "gep_ls" /\ scan = {}
    /\ LET g0 == Collect(DisconnectAll(Cur, nodes, disc))
           sub == Subgraph(g0, ids)
       IN /\ SetGraph(g0) /\ nodes' = nodes
          /\ subNodes' = sub.nodes /\ subEdges' = sub.edges
          /\ scan' = {x \in sub.edges : ntype[g0.esrc[x]] = "CopyVFGNode"
                        /\ ntype[g0.etgt[x]] \in {"StoreVFGNode", "ActualParmVFGNode"}}
          /\ disc' = {}
          /\ pc' = "copy"
    /\ UNCHANGED <<avars, bvars, cvars, mvars, dvars, ids, cur, round, it, hvars, err>>

\* _merge_copy: one turn of the loop over the edges of the slice, for an edge
\* Copy -> Store/ActualParm, be it still in the graph or not.
CopyEdge ==
    /\ pc = "copy"
    /\ \E e \in scan :
         LET s == esrc[e]
             t == etgt[e]
         IN \E r \in SpliceUppers(Cur, nodes, s, t) :
              \E d \in (IF r.err = "none" THEN DisconnectNode(r.g, nodes, s) ELSE {r}) :
                /\ Outcome(d)
                /\ scan' = scan \ {e}
                /\ IF d.err = "none"
                   THEN /\ label' = [label EXCEPT ![t] = CopyLabel(label[s], label[t])]
                        /\ pc' = pc
                   ELSE label' = label
    /\ UNCHANGED <<bvars, cvars, mvars, ntype, ir, params, vname, site, dvars, rvars, ids, disc, cur, round, it, hvars>>

\* VFG.remove_unconnected_edges is called by extract_model and defined nowhere:
\* remove_edge, on the slice, for every edge with an end outside the slice
\* (the pass "remove single-connected edges" of src/me.py).
RemoveUnconnectedEdges(g, N, E) ==
    RemoveEdges([g EXCEPT !.edges = E], N,
                {e \in E : g.esrc[e] \notin N \/ g.etgt[e] \notin N})

Checkpoint(E, es, et) == pre' = [edges |-> E, esrc |-> es, etgt |-> et]

\* _merge_copy is through; subvfg = vfg.get_subgraph(ids);
\* subvfg.remove_unconnected_edges(); _reverse_store_dest_edges(subvfg) starts.
CopyEnd ==
    /\ pc = "copy" /\ scan = {}
    /\ LET g0 == Collect(Cur)
           sub == Subgraph(g0, ids)
           v == RemoveUnconnectedEdges(g0, sub.nodes, sub.edges)
       IN /\ edges' = g0.edges /\ esrc' = g0.esrc /\ etgt' = g0.etgt
          /\ adj' = v.adj /\ nodes' = nodes
          /\ subNodes' = sub.nodes /\ subEdges' = v.edges
          /\ cur' = 0
          /\ pc' = "reverse"
    /\ UNCHANGED <<avars, bvars, cvars, mvars, dvars, ids, scan, disc, round, it, hvars, err>>

\* _reverse_store_dest_edges
StoreDestination(n) == LastOf(Split(label[n], Arrow))
LoadDestination(n) == LastOf(Split(label[n], Arrow))

\* The Store nodes `for node in subvfg.nodes` has still to come to.
StoresAhead == {s \in subNodes : ntype[s] = "StoreVFGNode" /\ s > cur}

\* The Addr -> Load edges above the Load node u.
AddrLoadEdges(u) == {x \in InEdges(Cur, u) : ntype[esrc[x]] = "AddrVFGNode"}

\* edge.reverse() for every edge of S.
Reverse(S) ==
    /\ esrc' = [x \in EdgeIds |-> IF x \in S THEN etgt[x] ELSE esrc[x]]
    /\ etgt' = [x \in EdgeIds |-> IF x \in S THEN esrc[x] ELSE etgt[x]]
    /\ rev' = [x \in EdgeIds |-> IF x \in S THEN rev[x] + 1 ELSE rev[x]]

\* The loop over the nodes comes to the next Store node.
RevNode ==
    /\ pc = "reverse" /\ scan = {} /\ StoresAhead # {}
    /\ cur' = MinOf(StoresAhead)
    /\ scan' = adj[MinOf(StoresAhead)]
    /\ UNCHANGED <<gvars, avars, bvars, cvars, mvars, dvars, rvars, ids, disc, round, it, hvars, pc, err>>

\* One step of the generator node.incoming_edges of the Store node cur, and
\* the body of the loop when the edge it comes to enters the node.
RevEdge ==
    /\ pc = "reverse"
    /\ \E e \in scan :
         LET u == esrc[e] IN
         /\ scan' = scan \ {e}
         /\ IF etgt[e] # cur THEN UNCHANGED <<esrc, etgt, rev, pc, err>>
            ELSE IF u \notin subNodes THEN Raise("KeyError") /\ UNCHANGED <<esrc, etgt, rev>>
            ELSE IF ntype[u] = "AddrVFGNode"
            THEN IF vname[u] = NoAttr
                 THEN Raise("AttributeError") /\ UNCHANGED <<esrc, etgt, rev>>
                 ELSE /\ Reverse(IF IsSubstr(vname[u], StoreDestination(cur)) THEN {e} ELSE {})
                      /\ UNCHANGED <<pc, err>>
            ELSE IF ntype[u] = "LoadVFGNode"
                    /\ IsSubstr(LoadDestination(u), StoreDestination(cur))
            THEN IF \A x \in InEdges(Cur, u) : esrc[x] \in subNodes
                 THEN Reverse(AddrLoadEdges(u) \cup {e}) /\ UNCHANGED <<pc, err>>
                 ELSE /\ \E S \in SUBSET {x \in AddrLoadEdges(u) : esrc[x] \in subNodes} :
                           Reverse(S)
                      /\ Raise("KeyError")
            ELSE UNCHANGED <<esrc, etgt, rev, pc, err>>
    /\ UNCHANGED <<nodes, edges, adj, avars, bvars, cvars, mvars, dvars, rvars, ids, disc, cur, round, it, call, pre>>

\* The loop over the nodes is through: extract_model returns subvfg.
RevEnd ==
    /\ pc = "reverse" /\ scan = {} /\ StoresAhead = {}
    /\ pc' = "done"
    /\ UNCHANGED <<gvars, avars, bvars, cvars, mvars, dvars, rvars, pvars, hvars, err>>

ExtractNext ==
    \/ ParmRetIter \/ RetParmIter \/ AfterStitch \/ DisconnectIter \/ SeedGrowth
    \/ GepGepFuse \/ GepGepEnd \/ GepLoadStoreEdge \/ GepLoadStoreEnd
    \/ CopyEdge \/ CopyEnd \/ RevNode \/ RevEdge \/ RevEnd

\* ------------------------------------------------ inputs of extract_model
\* The nodes of the idioms, as VFGNode.__init__ builds them:
\*   %p = alloca T, align 4          Addr   "T %p"
\*   %e = getelementptr ... %p, ...  Gep    "%p.%e"
\*   %e = load T, T* %p, align 4     Load   "%p → %e"
\*   store T %v, T* %e, align 4      Store  "%v → %e"
\*   %c = bitcast T* %e to U*, ...   Copy   "%e → %c"
Node(type, irtext, lbl, prm, vn, st) ==
    [type |-> type, ir |-> irtext, label |-> lbl, params |-> prm, vname |-> vn, site |-> st]

IdiomNodes ==
    << Node("AddrVFGNode", <<"p", "=", "a">>, <<"T", " ", "p">>, NoAttr, <<"p">>, 0),
      Node("GepVFGNode", <<"e", "=", "g", "p">>, <<"p", ".", "e">>, NoAttr, NoAttr, 0),
      Node("LoadVFGNode", <<"e", "=", "l", "p">>, <<"p", Arrow, "e">>, NoAttr, NoAttr, 0),
      Node("StoreVFGNode", <<"s", "v", "e">>, <<"v", Arrow, "e">>, NoAttr, NoAttr, 0),
      Node("CopyVFGNode", <<"c", "=", "b", "e">>, <<"e", Arrow, "c">>, NoAttr, NoAttr, 0) >>


\* The ways of taking the nodes 1..NumNodes from the list P of nodes.
Choices(P) == [1..NumNodes -> 1..Len(P)]

\* A node whose kind and texts play no part.
PlainNode == Node("NullPtrVFGNode", <<>>, <<>>, NoAttr, NoAttr, 0)

\* The node objects: node n is the node c[n] of the list P.
LoadNodes(P, c) ==
    LET d(n) == IF n \in DOMAIN c THEN P[c[n]] ELSE PlainNode IN
    /\ ntype = [n \in Names |-> d(n).type]
    /\ label = [n \in Names |-> d(n).label]
    /\ ir = [n \in Names |-> d(n).ir]
    /\ params = [n \in Names |-> d(n).params]
    /\ vname = [n \in Names |-> d(n).vname]
    /\ site = [n \in Names |-> d(n).site]

SeedSets == {S \in SUBSET (1..NumNodes) : S # {} /\ Cardinality(S) <= MaxSeeds}

ExtractInit ==
    /\ \E k \in {NumNodes - 1, NumNodes} : \E g \in InitGraphs(k, MaxModelEdges) : LoadGraph(k, g)
    /\ \E c \in Choices(IdiomNodes) : LoadNodes(IdiomNodes, c)
    /\ NoDfs /\ NoBuilder /\ NoCodec /\ NoOpt
    /\ call = NoCall /\ rev = [e \in EdgeIds |-> 0]
    /\ pre = [edges |-> edges, esrc |-> esrc, etgt |-> etgt]
    /\ subNodes = {} /\ subEdges = {}
    /\ ids \in SeedSets
    /\ scan = {} /\ disc = {} /\ cur = 0 /\ round = 0 /\ it = 0
    /\ pc = "parm_ret" /\ err = "none"

SpecExtract == ExtractInit /\ [][ExtractNext]_vars

\* --------------------------------------------- claims on extract_model
\* The node n had an edge when extract_model was called.
HadEdges(n) == \E e \in pre.edges : pre.esrc[e] = n \/ pre.etgt[e] = n

\* C7 (unreachable pruning): the model extract_model returns holds no node
\* with zero edges: a node (a seed included) that the fusion passes left
\* without edges is absent from it.
ModelHasNoNodeLeftEdgeless ==
    pc = "done" => \A n \in subNodes : HadEdges(n) => adj[n] # {}

\* C8: in the model extract_model returns no edge runs from a Gep node to a
\* Gep, Load or Store node, edges added by the Copy fusion included.
ModelHasNoGepIdiomEdge ==
    pc = "done" =>
        \A e \in subEdges :
            ~(ntype[esrc[e]] = "GepVFGNode"
              /\ ntype[etgt[e]] \in {"GepVFGNode", "LoadVFGNode", "StoreVFGNode"})

\* ------------------------------- every graph the pipeline holds (C3)
GraphsInit == ApiInit \/ ExtractInit

GraphsNext == ApiNext \/ ExtractNext

\* The callers of the graph interface and extract_model.
SpecGraphs == GraphsInit /\ [][GraphsNext]_vars

CallNodes ==
    << Node("ActualParmVFGNode", <<"T", " ", "x">>, <<"x">>, NoAttr, NoAttr, 1),
      Node("ActualParmVFGNode", <<"y", "=", "+", "x">>, <<"y">>, NoAttr, NoAttr, 1),
      Node("ActualRetVFGNode", <<"r", "=", "f", "(", "x", ")">>,
           <<"r", "=", "f", "(", "x", ")">>, <<(<<"x">>)>>, NoAttr, 1),
      Node("ActualRetVFGNode", <<"s", "=", "g", "(", "y", ")">>,
           <<"s", "=", "g", "(", "y", ")">>, <<(<<"y">>)>>, NoAttr, 1),
      Node("ActualRetVFGNode", <<"t", "=", "h", "(", "x", ",", "y", ")">>,
           <<"t", "=", "h", "(", "x", ",", "y", ")">>, <<(<<"x">>), (<<"y">>)>>, NoAttr, 1),
      Node("ActualParmVFGNode", <<"T", " ", "x">>, <<"x">>, NoAttr, NoAttr, 2),
      Node("ActualParmVFGNode", <<"T", " ", "x">>, <<"x">>, NoAttr, NoAttr, 0),
      Node("ActualRetVFGNode", <<"r", "=", "f", "(", "x", ")">>,
           <<"r", "=", "f", "(", "x", ")">>, <<(<<"x">>)>>, NoAttr, 0) >>

\* The stitcher as extract_model runs it (_connect_actual_param_nodes, then
\* _connect_actual_ret_nodes) has returned for the first time; it is started
\* again on the same graph and seeds.
StitchAgain ==
    /\ pc = "stitched" /\ round = 1
    /\ round' = 2
    /\ Checkpoint(edges, esrc, etgt)
    /\ pc' = "parm_ret"
    /\ UNCHANGED <<gvars, avars, bvars, cvars, mvars, dvars, rvars, ids, scan, disc, cur, it, call, rev, err>>

\* The second run of the stitcher has returned.
StitchDone ==
    /\ pc = "stitched" /\ round = 2
    /\ pc' = "done"
    /\ UNCHANGED <<gvars, avars, bvars, cvars, mvars, dvars, rvars, pvars, hvars, err>>

StitchNext == ParmRetIter \/ RetParmIter \/ StitchAgain \/ StitchDone

StitchInit ==
    /\ \E g \in InitGraphs(NumNodes, MaxStitchEdges) : LoadGraph(NumNodes, g)
    /\ \E c \in Choices(CallNodes) : LoadNodes(CallNodes, c)
    /\ NoDfs /\ NoBuilder /\ NoCodec /\ NoOpt
    /\ call = NoCall /\ rev = [e \in EdgeIds |-> 0]
    /\ pre = [edges |-> edges, esrc |-> esrc, etgt |-> etgt]
    /\ subNodes = {} /\ subEdges = {}
    /\ ids \in SeedSets
    /\ scan = {} /\ disc = {} /\ cur = 0 /\ round = 1 /\ it = 0
    /\ pc = "parm_ret" /\ err = "none"

SpecStitch == StitchInit /\ [][StitchNext]_vars

\* C6: after the stitcher has run once on a graph and seed set (the
\* parm-to-ret loop to its fixpoint, then the ret-to-parm loop to its
\* fixpoint), running the same two loops again on the same graph and seeds
\* adds no edge: during the second run the edge set is the one the first run
\* left.
SecondStitchRunAddsNoEdge == round = 2 => edges = pre.edges

\* ------------------------------------------- store-destination reversal alone
\* The nodes of the store idioms, as VFGNode.__init__ builds them:
\*   %p = alloca T, align 4          Addr   variable_name "%p"
\*   %e = load T, T* %p, align 4     Load   "%p → %e"
\*   store T %v, T* %e, align 4      Store  "%v → %e"
\*   store T %v, T* %p, align 4      Store  "%v → %p"
\*   store T* %p, T** %p1, align 8   Store  "%p → %p1"
StoreNodes ==
    << Node("AddrVFGNode", <<"p", "=", "a">>, <<"T", " ", "p">>, NoAttr, <<"p">>, 0),
      Node("LoadVFGNode", <<"e", "=", "l", "p">>, <<"p", Arrow, "e">>, NoAttr, NoAttr, 0),
      Node("StoreVFGNode", <<"s", "v", "e">>, <<"v", Arrow, "e">>, NoAttr, NoAttr, 0),
      Node("StoreVFGNode", <<"s", "v", "p">>, <<"v", Arrow, "p">>, NoAttr, NoAttr, 0),
      Node("StoreVFGNode", <<"s", "p", "p", "1">>, <<"p", Arrow, "p", "1">>,
           NoAttr, NoAttr, 0) >>

RevNext == RevNode \/ RevEdge \/ RevEnd

\* _reverse_store_dest_edges(subvfg) is called on a VFG that holds all the
\* nodes and edges loaded.
RevInit ==
    /\ \E g \in InitGraphs(NumNodes, MaxInitEdges) :
         /\ LoadGraph(NumNodes, g)
         /\ subNodes = 1..NumNodes /\ subEdges = 1..Len(g)
         /\ pre = [edges |-> 1..Len(g),
                   esrc |-> [e \in EdgeIds |-> IF e <= Len(g) THEN g[e][1] ELSE NoNode],
                   etgt |-> [e \in EdgeIds |-> IF e <= Len(g) THEN g[e][2] ELSE NoNode]]
    /\ \E c \in Choices(StoreNodes) : LoadNodes(StoreNodes, c)
    /\ NoDfs /\ NoPipeline /\ NoBuilder /\ NoCodec /\ NoOpt
    /\ call = NoCall /\ rev = [e \in EdgeIds |-> 0]
    /\ pc = "reverse" /\ err = "none"

SpecReverse == RevInit /\ [][RevNext]_vars

\* The edges of the model when the pass started, by the ends they had then.
WasEdge(e, uk, tk) ==
    /\ e \in pre.edges
    /\ ntype[pre.esrc[e]] = uk /\ ntype[pre.etgt[e]] = tk

\* The edge e entered a Store node from an Addr node whose variable name is
\* the destination operand of the Store.
AddrOfDestination(e) ==
    /\ WasEdge(e, "AddrVFGNode", "StoreVFGNode")
    /\ vname[pre.esrc[e]] = StoreDestination(pre.etgt[e])

\* The edge e entered a Store node from a Load node whose loaded value is the
\* destination operand of the Store.
LoadOfDestination(e) ==
    /\ WasEdge(e, "LoadVFGNode", "StoreVFGNode")
    /\ LoadDestination(pre.esrc[e]) = StoreDestination(pre.etgt[e])

\* The edge e entered, from an Addr node, a Load node as above.
AddrAboveLoadOfDestination(e) ==
    /\ WasEdge(e, "AddrVFGNode", "LoadVFGNode")
    /\ \E x \in pre.edges : LoadOfDestination(x) /\ pre.esrc[x] = pre.etgt[e]

ToReverse(e) ==
    AddrOfDestination(e) \/ LoadOfDestination(e) \/ AddrAboveLoadOfDestination(e)

\* C9: after _reverse_store_dest_edges, each edge that entered a Store node s
\* from an Addr node whose variable name is s's destination operand points
\* from s to that Addr node; each edge that entered s from a Load whose loaded
\* value is s's destination points from s to that Load and every Addr -> Load
\* edge above that Load points Load -> Addr; each such edge is reversed exactly
\* once and every other edge keeps its direction.
StoreDestinationEdgesReversedOnce ==
    pc = "done" =>
        \A e \in pre.edges :
            IF ToReverse(e)
            THEN esrc[e] = pre.etgt[e] /\ etgt[e] = pre.esrc[e] /\ rev[e] = 1
            ELSE esrc[e] = pre.esrc[e] /\ etgt[e] = pre.etgt[e] /\ rev[e] = 0

\* ------------------------------------- the path-based Model (model_builder)
\* The VFG of src/model_builder keeps no edge objects: a node holds the sets
\* _upper_nodes and _lower_nodes.  The Graph it is built from holds a set of
\* Edge objects that are equal when their (source, target) pairs are; it is
\* kept here in edges / esrc / etgt and does not change.
\*
\* The nodes, as VFGNode._compile_ir builds them (kinds without "VFGNode"):
\*   %p = alloca T, align 4          Addr
\*   store T %v, T* %p, align 4      Store
\*   %e = load T, T* %p, align 4     Load
\*   T %x                            ActualParm  _parm "%x"
\*   %r = call T @f(T %x)            ActualRet   _args ("%x",)
PathNode(type, prm, ags) == [type |-> type, parm |-> prm, args |-> ags]

PathNodes ==
    << PathNode("Addr", NoAttr, NoAttr),
       PathNode("Store", NoAttr, NoAttr),
       PathNode("Load", NoAttr, NoAttr),
       PathNode("ActualParm", <<"x">>, NoAttr),
       PathNode("ActualRet", NoAttr, <<(<<"x">>)>>) >>

\* The Graph objects of at most m edges over the nodes 1..k.
FileGraphs(k, m) ==
    {g \in InitGraphs(k, m) :
        \A i \in 1..(Len(g) - 1) :
            PairIndex(g[i][1], g[i][2]) < PairIndex(g[i + 1][1], g[i + 1][2])}

\* VFG.__init__: add_lower_nodes / add_upper_nodes for every edge of the
\* Graph; both leave out the node itself.
LinkedLower(g) ==
    [n \in Names |-> {g[i][2] : i \in {j \in 1..Len(g) : g[j][1] = n}} \ {n}]
LinkedUpper(g) ==
    [n \in Names |-> {g[i][1] : i \in {j \in 1..Len(g) : g[j][2] = n}} \ {n}]

\* VFG.search_nodes(type, node.function, node.basic_block)
SearchPathNodes(type, n) == {m \in nodes : ntype[m] = type /\ site[m] = site[n]}

\* `actual_parm.parm in actual_ret.args`: membership in a tuple.
ParmInArgs(p, r) == \E i \in 1..Len(args[r]) : args[r][i] = parm[p]

\* The (ActualParm, ActualRet) pairs _connect_actual_parm_ret and
\* _connect_actual_ret_parm link when they are called on the node n.
Connected(n) ==
    IF ntype[n] = "ActualParm"
    THEN {<<n, r>> : r \in {m \in SearchPathNodes("ActualRet", n) : ParmInArgs(n, m)}}
    ELSE IF ntype[n] = "ActualRet"
    THEN {<<p, n>> : p \in {m \in SearchPathNodes("ActualParm", n) : ParmInArgs(m, n)}}
    ELSE {}

\* A call of _find_source_sink_vfg_nodes(n) below the frames cs: the call
\* itself when the interpreter's recursion limit allows it, the match
\* statement, and the frame of the loop over n.lower_nodes.
FindSourceSink(n, cs) ==
    IF Len(cs) >= RecursionLimit
    THEN /\ Raise("RecursionError")
         /\ callstack' = cs
         /\ UNCHANGED <<lower_nodes, upper_nodes, source_sink_vfg_nodes>>
    ELSE LET C == Connected(n)
             lo == [m \in Names |-> lower_nodes[m] \cup {c[2] : c \in {d \in C : d[1] = m}}]
             up == [m \in Names |-> upper_nodes[m] \cup {c[1] : c \in {d \in C : d[2] = m}}]
         IN /\ lower_nodes' = lo /\ upper_nodes' = up
            /\ source_sink_vfg_nodes' =
                 IF ntype[n] \in {"Store", "Addr"}
                 THEN source_sink_vfg_nodes \cup {n} ELSE source_sink_vfg_nodes
            /\ callstack' = IF lo[n] = {} THEN cs
                            ELSE Append(cs, [node |-> n, rest |-> lo[n]])
            /\ UNCHANGED <<pc, err>>

\* VFG(graph): VFGNode.__init__ assigns to self.upper_nodes, a property
\* without a setter, which raises AttributeError for the first node built.
VFGInit ==
    /\ pc = "vfg"
    /\ Raise("AttributeError")
    /\ UNCHANGED <<gvars, avars, bvars, cvars, mvars, dvars, rvars, pvars, hvars>>

\* for start_vfg_node in start_vfg_nodes: _find_source_sink_vfg_nodes(...)
\* start_vfg_nodes is the generator Model.__init__ passes: get_node_from_id
\* runs when the loop comes to the id, and raises ValueError for an id of no node.
WalkStart ==
    /\ pc = "walk" /\ callstack = <<>> /\ todo # {}
    /\ \E s \in todo :
         /\ todo' = todo \ {s}
         /\ IF s \in nodes
            THEN FindSourceSink(s, <<>>)
            ELSE /\ Raise("ValueError")
                 /\ UNCHANGED <<lower_nodes, upper_nodes, source_sink_vfg_nodes, callstack>>
    /\ UNCHANGED <<gvars, avars, cvars, mvars, parm, args, paths, run, dvars, rvars, pvars, hvars>>

\* One turn of `for lower_vfg_node in current_vfg_node.lower_nodes` in the
\* innermost frame, or its return.
WalkStep ==
    /\ pc = "walk" /\ callstack # <<>>
    /\ LET top == callstack[Len(callstack)] IN
       IF top.rest = {}
       THEN /\ callstack' = Front(callstack)
            /\ UNCHANGED <<lower_nodes, upper_nodes, source_sink_vfg_nodes, pc, err>>
       ELSE \E m \in top.rest :
              FindSourceSink(m, [callstack EXCEPT ![Len(callstack)].rest = @ \ {m}])
    /\ UNCHANGED <<gvars, avars, cvars, mvars, parm, args, paths, todo, run, dvars, rvars, pvars, hvars>>

\* _get_source_sink_vfg_nodes returns; _get_vfg_path goes through its result.
WalkEnd ==
    /\ pc = "walk" /\ callstack = <<>> /\ todo = {}
    /\ todo' = source_sink_vfg_nodes
    /\ pc' = "paths"
    /\ UNCHANGED <<gvars, avars, cvars, mvars, lower_nodes, upper_nodes, parm, args, source_sink_vfg_nodes,
                   paths, callstack, run, dvars, rvars, pvars, hvars, err>>

\* The neighbours _find_paths goes to from the path p in the direction d.
PathEnd(p, d) == IF d = "f" THEN p[Len(p)] ELSE p[1]
PathNeighbours(p, d) ==
    IF d = "f" THEN lower_nodes[PathEnd(p, d)] ELSE upper_nodes[PathEnd(p, d)]
Extend(p, d, m) == IF d = "f" THEN Append(p, m) ELSE <<m>> \o p

\* A call of _find_paths(d, p) below the frames cs.
FindPaths(d, p, cs) ==
    IF PathNeighbours(p, d) = {}
    THEN paths' = Append(paths, p) /\ callstack' = cs
    ELSE /\ callstack' = Append(cs, [path |-> p, dir |-> d, rest |-> PathNeighbours(p, d)])
         /\ paths' = paths

\* for source_sink_vfg_node in source_sink_vfg_nodes: the next node.
PathsNode ==
    /\ pc = "paths" /\ callstack = <<>> /\ run.dirs = <<>> /\ todo # {}
    /\ \E n \in todo :
         /\ todo' = todo \ {n}
         /\ run' = [node |-> n,
                    dirs |-> (IF lower_nodes[n] # {} THEN <<"f">> ELSE <<>>)
                             \o (IF upper_nodes[n] # {} THEN <<"b">> ELSE <<>>)]
    /\ UNCHANGED <<gvars, avars, cvars, mvars, lower_nodes, upper_nodes, parm, args, source_sink_vfg_nodes,
                   paths, callstack, dvars, rvars, pvars, hvars, pc, err>>

\* _find_paths('f', [node]) or _find_paths('b', [node]) for the node of the loop.
PathsCall ==
    /\ pc = "paths" /\ callstack = <<>> /\ run.dirs # <<>>
    /\ run' = [run EXCEPT !.dirs = Tail(@)]
    /\ FindPaths(Head(run.dirs), <<run.node>>, <<>>)
    /\ UNCHANGED <<gvars, avars, cvars, mvars, lower_nodes, upper_nodes, parm, args, source_sink_vfg_nodes,
                   todo, dvars, rvars, pvars, hvars, pc, err>>

\* One turn of the for loop of the innermost _find_paths frame, or its return.
PathsStep ==
    /\ pc = "paths" /\ callstack # <<>>
    /\ LET top == callstack[Len(callstack)] IN
       IF top.rest = {}
       THEN callstack' = Front(callstack) /\ paths' = paths
       ELSE \E m \in top.rest :
              LET cs == [callstack EXCEPT ![Len(callstack)].rest = @ \ {m}] IN
              IF \E i \in 1..Len(top.path) : top.path[i] = m
              THEN callstack' = cs /\ paths' = paths
              ELSE FindPaths(top.dir, Extend(top.path, top.dir, m), cs)
    /\ UNCHANGED <<gvars, avars, cvars, mvars, lower_nodes, upper_nodes, parm, args, source_sink_vfg_nodes,
                   todo, run, dvars, rvars, pvars, hvars, pc, err>>

\* _get_vfg_path returns the paths.
PathsEnd ==
    /\ pc = "paths" /\ callstack = <<>> /\ run.dirs = <<>> /\ todo = {}
    /\ pc' = "done"
    /\ UNCHANGED <<gvars, avars, bvars, cvars, mvars, dvars, rvars, pvars, hvars, err>>

PathsNext ==
    \/ VFGInit \/ WalkStart \/ WalkStep \/ WalkEnd
    \/ PathsNode \/ PathsCall \/ PathsStep \/ PathsEnd

\* Model(vfg, ids) on the VFG of a Graph g: either VFG(g) is still to run, or
\* the node objects hold the adjacency sets VFG.__init__ links (the state the
\* two walks of Model._get_vfg_path are written for).
PathsInit ==
    /\ \E k \in {NumNodes - 1, NumNodes} : \E g \in FileGraphs(k, MaxPathEdges) :
         /\ nodes = 1..k
         /\ edges = 1..Len(g)
         /\ esrc = [e \in EdgeIds |-> IF e <= Len(g) THEN g[e][1] ELSE NoNode]
         /\ etgt = [e \in EdgeIds |-> IF e <= Len(g) THEN g[e][2] ELSE NoNode]
         /\ adj = [n \in Names |-> {}]
         /\ \/ /\ pc = "vfg"
               /\ lower_nodes = [n \in Names |-> {}]
               /\ upper_nodes = [n \in Names |-> {}]
            \/ /\ pc = "walk"
               /\ lower_nodes = LinkedLower(g)
               /\ upper_nodes = LinkedUpper(g)
    /\ \E c \in Choices(PathNodes) :
         /\ ntype = [n \in Names |-> IF n \in DOMAIN c THEN PathNodes[c[n]].type ELSE "NullPtrVFGNode"]
         /\ parm = [n \in Names |-> IF n \in DOMAIN c THEN PathNodes[c[n]].parm ELSE NoAttr]
         /\ args = [n \in Names |-> IF n \in DOMAIN c THEN PathNodes[c[n]].args ELSE NoAttr]
    /\ label = [n \in Names |-> <<>>] /\ ir = [n \in Names |-> <<>>]
    /\ params = [n \in Names |-> NoAttr] /\ vname = [n \in Names |-> NoAttr]
    /\ site = [n \in Names |-> 0]
    /\ ids \in SeedSets /\ todo = ids
    /\ source_sink_vfg_nodes = {} /\ paths = <<>> /\ callstack = <<>>
    /\ run = [node |-> NoNode, dirs |-> <<>>]
    /\ scan = {} /\ disc = {} /\ cur = 0 /\ round = 0 /\ it = 0
    /\ NoDfs /\ NoHistory /\ NoCodec /\ NoOpt
    /\ subNodes = {} /\ subEdges = {}
    /\ err = "none"

SpecPaths == PathsInit /\ [][PathsNext]_vars

\* A directed cycle of the Graph, through two nodes at least (the VFG leaves
\* out the self-loops), is reachable from a seed.
CycleReachableFromSeed ==
    LET E == {e \in edges : esrc[e] # etgt[e]} IN
    \E n \in FwdReachIn(E, esrc, etgt, ids) :
        n \in FwdReachIn(E, esrc, etgt, {etgt[e] : e \in {x \in E : esrc[x] = n}})

MissNodes ==
    << Node("AddrVFGNode", <<"p", "=", "a">>, <<"T", " ", "p">>, NoAttr, <<"p">>, 0),
      Node("AddrVFGNode", <<"g", "=", "G">>, <<"g", "=", "G">>, NoAttr, NoAttr, 0),
      Node("LoadVFGNode", <<"e", "=", "l", "p">>, <<"p", Arrow, "e">>, NoAttr, NoAttr, 0),
      Node("StoreVFGNode", <<"s", "v", "p">>, <<"v", Arrow, "p">>, NoAttr, NoAttr, 0) >>

\* _reverse_store_dest_edges(subvfg), as extract_model calls it, on a VFG
\* that holds all the nodes and edges loaded.
MissInit ==
    /\ \E g \in InitGraphs(NumNodes, MaxInitEdges) :
         /\ LoadGraph(NumNodes, g)
         /\ subNodes = 1..NumNodes /\ subEdges = 1..Len(g)
         /\ pre = [edges |-> 1..Len(g),
                   esrc |-> [e \in EdgeIds |-> IF e <= Len(g) THEN g[e][1] ELSE NoNode],
                   etgt |-> [e \in EdgeIds |-> IF e <= Len(g) THEN g[e][2] ELSE NoNode]]
    /\ \E c \in Choices(MissNodes) : LoadNodes(MissNodes, c)
    /\ NoDfs /\ NoPipeline /\ NoBuilder /\ NoCodec /\ NoOpt
    /\ call = NoCall /\ rev = [e \in EdgeIds |-> 0]
    /\ pc = "reverse" /\ err = "none"

SpecMiss == MissInit /\ [][RevNext]_vars

\* The pattern of its kind missed the node n: its label is its raw IR.
PatternMissed(n) == ntype[n] = "AddrVFGNode" /\ label[n] = ir[n]

\* C14: a node whose kind-specific pattern did not match has its raw IR as
\* label and never aborts extract_model: store-destination reversal, reading
\* the variable name of such an Addr node, skips it instead of raising.
PatternMissNeverAborts ==
    (\E n \in nodes : PatternMissed(n)) => pc # "error"

\* The pass has raised on a graph with a node the pattern missed.
PatternMissAborted ==
    /\ \E n \in nodes : PatternMissed(n)
    /\ pc = "error" /\ err = "AttributeError"

\* The pass does not raise when the pattern matched every Addr node.
PatternMatchedNeverAborts ==
    (\A n \in nodes : ~PatternMissed(n)) => pc # "error"

\* ------------------------------------------------------- the DOT codecs
\* A text is a sequence of one-symbol strings.  A DOT file is kept as its
\* node lines and its edge lines, in file order:
\*   node line  [name, color, penwidth, label]   name [shape=record,color=..,penwidth=..,label=".."];
\*   edge line  [source, target, style, color]   source -> target[style=..,color=..];
\* A name is [prefix, hex]: the text prefix followed by the number hex; the
\* readers accept only names with the prefix "Node0x".  penwidth and the
\* color of an edge line are "" when the line does not have the attribute.
MaxFileNodes == 2
MaxFileEdges == 2
MaxNumber == 16

Sep == ",\\n"           \* the separator r',\\n\s*' of the label fields
IdMark == " ID: "
NodeName(h) == [prefix |-> "Node0x", hex |-> h]

\* int(text): the number a decimal text stands for; -1: int raises ValueError.
IntOf(s) ==
    IF \E k \in 0..MaxNumber : ToString(k) = s
    THEN CHOOSE k \in 0..MaxNumber : ToString(k) = s
    ELSE -1
\* int(name) of a node name
IntOfName(name) == IF name.prefix = "" THEN name.hex ELSE -1

\* VFGNode._label_format for the kinds the files here hold: the alloca
\* pattern of AddrVFGNode ("%p", " = alloca ", "i32", ", align ", "4"), and
\* the raw IR on a pattern miss, on an empty IR and for a kind without a case.
LabelFormat(type, text) ==
    IF text = <<>> THEN text
    ELSE IF /\ type = <<"AddrVFGNode">> /\ Len(text) = 5
            /\ text[2] = " = alloca " /\ text[4] = ", align "
         THEN <<text[3], " ", text[1]>>
         ELSE text

\* VFGNode.__init__(name, label, shape, color, penwidth)
NewVFGNode(name, lbl, color, penwidth) ==
    LET info == Split(lbl, Sep)
        head == Split(info[1], IdMark)
        text == IF Len(info) >= 3 /\ info[3] # <<"(none)">> THEN info[3] ELSE <<>>
        type == IF Len(head) = 2 THEN head[1] ELSE <<>>
    IN  [err |-> IF Len(head) # 2 THEN "ValueError"
                 ELSE IF Len(info) < 3 THEN "IndexError" ELSE "none",
         name |-> name, color |-> color, penwidth |-> penwidth,
         type |-> type,
         id |-> IF Len(head) = 2 THEN head[2] ELSE <<>>,
         label |-> LabelFormat(type, text)]

\* Node(name, label, shape, color, penwidth) of model_builder/graph.py
NewNode(name, lbl, color, penwidth) ==
    [err |-> "none", name |-> name, color |-> color, penwidth |-> penwidth,
     type |-> <<>>, id |-> <<>>, label |-> lbl]

\* The text between the braces of label="{...}" (node_re of read_vfg).
InBraces(lbl) == SubSeq(lbl, 2, Len(lbl) - 1)
HasBraces(lbl) == Len(lbl) >= 3 /\ lbl[1] = "{" /\ lbl[Len(lbl)] = "}"

NewEdge(line) ==
    [source |-> line.source, target |-> line.target, style |-> line.style,
     color |-> IF line.color = "" THEN "black" ELSE line.color]

\* The positions of s whose key no earlier position has, in order.
FirstOf(s, Key(_)) == {i \in 1..Len(s) : \A j \in 1..(i - 1) : Key(s[j]) # Key(s[i])}
LastWith(s, Key(_), i) == CHOOSE j \in 1..Len(s) :
    Key(s[j]) = Key(s[i]) /\ \A k \in (j + 1)..Len(s) : Key(s[k]) # Key(s[i])
RECURSIVE PickFrom(_, _)
\* The positions I of a sequence in increasing order.
PickFrom(I, n) ==
    IF n = 0 THEN <<>>
    ELSE IF n \in I THEN Append(PickFrom(I, n - 1), n) ELSE PickFrom(I, n - 1)
NameOf(x) == x.name
PairOf(x) == <<x.source, x.target>>

\* The orders in which a set with the members s[1..] can be iterated.
Orders(n) == {p \in [1..n -> 1..n] : \A i \in 1..n : \A j \in 1..n : p[i] = p[j] => i = j}

\* read_vfg(dot_file): the node table is a dict, so its order is the order
\* of the node lines (a repeated name keeps its place and takes the later
\* line); every edge line makes its own VFGEdge, and the set of these
\* objects is iterated in an order of its own, which p stands for.
ReadVfg(file, p) ==
    LET made == [i \in 1..Len(file.nodes) |->
                    NewVFGNode(file.nodes[i].name, InBraces(file.nodes[i].label),
                               file.nodes[i].color,
                               IF file.nodes[i].penwidth = "" THEN 2
                               ELSE 2 * IntOf(file.nodes[i].penwidth))]
        bad == {i \in 1..Len(file.nodes) :
                   ~HasBraces(file.nodes[i].label) \/ made[i].err # "none"}
        first == IF bad = {} THEN 0 ELSE CHOOSE i \in bad : \A j \in bad : i <= j
        keep == PickFrom(FirstOf(made, NameOf), Len(made))
        es == [i \in 1..Len(file.edges) |-> NewEdge(file.edges[i])]
        known == {made[i].name : i \in 1..Len(made)}
    IN  IF first # 0
        THEN [err |-> IF HasBraces(file.nodes[first].label) THEN made[first].err
                      ELSE "RuntimeWarning",
              graph |-> NoGraph]
        ELSE IF \E i \in 1..Len(es) : es[i].source \notin known \/ es[i].target \notin known
        THEN [err |-> "KeyError", graph |-> NoGraph]
        ELSE [err |-> "none",
              graph |-> [nodes |-> [i \in 1..Len(keep) |-> made[LastWith(made, NameOf, keep[i])]],
                         edges |-> [i \in 1..Len(es) |-> es[p[i]]]]]

\* Graph.from_file(filename): nodes and edges go into sets, where a Node is
\* its name and an Edge its (source, target), so a repeated one is dropped.
\* The label keeps its braces; penwidth is int() of the text, 1 by default.
FromFile(file) ==
    LET made == [i \in 1..Len(file.nodes) |->
                    NewNode(file.nodes[i].name, file.nodes[i].label, file.nodes[i].color,
                            IF file.nodes[i].penwidth = "" THEN 1
                            ELSE IntOf(file.nodes[i].penwidth))]
        es == [i \in 1..Len(file.edges) |-> NewEdge(file.edges[i])]
        keep == PickFrom(FirstOf(made, NameOf), Len(made))
        ekeep == PickFrom(FirstOf(es, PairOf), Len(es))
    IN  [err |-> "none",
         graph |-> [nodes |-> [i \in 1..Len(keep) |-> made[keep[i]]],
                    edges |-> [i \in 1..Len(ekeep) |-> es[ekeep[i]]]]]

EdgeLine(e) == [source |-> e.source, target |-> e.target, style |-> e.style, color |-> e.color]

\* VFG.write(output_file): the nodes in the order of the dict, the edges in
\* the order of the set; the label is "{type ID: id\nlabel}".
VfgWrite(g) ==
    IF \E i \in 1..Len(g.nodes) : Len(g.nodes[i].id) # 1 \/ IntOf(g.nodes[i].id[1]) < 0
    THEN [err |-> "ValueError", text |-> NoGraph]
    ELSE [err |-> "none",
          text |-> [nodes |-> [i \in 1..Len(g.nodes) |->
                                 [name |-> g.nodes[i].name, color |-> g.nodes[i].color,
                                  penwidth |-> ToString(g.nodes[i].penwidth),
                                  label |-> <<"{">> \o g.nodes[i].type
                                            \o <<IdMark, ToString(IntOf(g.nodes[i].id[1])), "\\n">>
                                            \o g.nodes[i].label \o <<"}">>]],
                    edges |-> [i \in 1..Len(g.edges) |-> EdgeLine(g.edges[i])]]]

NameBefore(a, b) == IntOfName(a.name) < IntOfName(b.name)
PairBefore(a, b) ==
    \/ IntOfName(a.source) < IntOfName(b.source)
    \/ IntOfName(a.source) = IntOfName(b.source) /\ IntOfName(a.target) < IntOfName(b.target)

\* Graph.write(filename): sorted by int(node.name) and by (int(edge.source),
\* int(edge.target)); int raises ValueError on a name that is no number.
GraphWrite(g) ==
    IF \/ \E i \in 1..Len(g.nodes) : IntOfName(g.nodes[i].name) < 0
       \/ \E i \in 1..Len(g.edges) :
             IntOfName(g.edges[i].source) < 0 \/ IntOfName(g.edges[i].target) < 0
    THEN [err |-> "ValueError", text |-> NoGraph]
    ELSE LET ns == SortSeq(g.nodes, NameBefore)
             es == SortSeq(g.edges, PairBefore)
         IN  [err |-> "none",
              text |-> [nodes |-> [i \in 1..Len(ns) |->
                                     [name |-> ns[i].name, color |-> ns[i].color,
                                      penwidth |-> ToString(ns[i].penwidth),
                                      label |-> <<"{">> \o ns[i].label \o <<"}">>]],
                        edges |-> [i \in 1..Len(es) |-> EdgeLine(es[i])]]]

\* The labels of the node lines of a file, as SVF writes them:
\*   {AddrVFGNode ID: 1,\n x,\n%p = alloca i32, align 4}
\*   {AddrVFGNode ID: 2,\n x,\n@g = global i32 0}
\*   {NullPtrVFGNode ID: 0,\n x,\n(none)}
FileLabels ==
    << <<"{", "AddrVFGNode", IdMark, "1", Sep, "x", Sep,
         "%p", " = alloca ", "i32", ", align ", "4", "}">>,
       <<"{", "AddrVFGNode", IdMark, "2", Sep, "x", Sep, "@g = global i32 0", "}">>,
       <<"{", "NullPtrVFGNode", IdMark, "0", Sep, "x", Sep, "(none)", "}">> >>

NodeLines(h) ==
    {[name |-> NodeName(h), color |-> "green", penwidth |-> w, label |-> FileLabels[l]] :
        w \in {"", "2"}, l \in 1..Len(FileLabels)}
EdgeLines(H) ==
    {[source |-> NodeName(a), target |-> NodeName(b), style |-> "solid", color |-> c] :
        a \in H, b \in H, c \in {"", "red"}}
SeqsUpTo(S, n) == UNION {[1..k -> S] : k \in 0..n}

\* The well-formed files: every node line has its own name, every edge line
\* joins two nodes of the file.
DotFiles ==
    LET Hs == {x \in SeqsUpTo(1..MaxFileNodes, MaxFileNodes) :
                  \A i \in 1..Len(x) : \A j \in 1..Len(x) : x[i] = x[j] => i = j}
        AllLines == UNION {NodeLines(k) : k \in 1..MaxFileNodes}
        NodeSeqs(h) == {ns \in [1..Len(h) -> AllLines] :
                           \A i \in 1..Len(h) : ns[i].name = NodeName(h[i])}
    IN  UNION {{[nodes |-> ns, edges |-> es] :
                   ns \in NodeSeqs(h),
                   es \in SeqsUpTo(EdgeLines({h[i] : i \in 1..Len(h)}), MaxFileEdges)} :
               h \in Hs}

\* A file is read, the object is written twice, and the text written last
\* is read again.
DotInit ==
    /\ codec \in {"read_vfg", "Graph"}
    /\ dot_file \in DotFiles
    /\ graph = NoGraph /\ parsed = <<>> /\ output = <<>>
    /\ nodes = {} /\ edges = {}
    /\ esrc = [e \in EdgeIds |-> NoNode] /\ etgt = [e \in EdgeIds |-> NoNode]
    /\ adj = [n \in Names |-> {}]
    /\ ntype = [n \in Names |-> ""]
    /\ label = [n \in Names |-> <<>>] /\ ir = [n \in Names |-> <<>>]
    /\ params = [n \in Names |-> NoAttr] /\ vname = [n \in Names |-> NoAttr]
    /\ site = [n \in Names |-> 0]
    /\ NoDfs /\ NoPipeline /\ NoBuilder /\ NoHistory /\ NoOpt
    /\ subNodes = {} /\ subEdges = {}
    /\ pc = "read" /\ err = "none"

\* read_vfg(dot_file) or Graph.from_file(dot_file)
ReadDot ==
    /\ pc = "read"
    /\ \E p \in Orders(Len(dot_file.edges)) :
         LET r == IF codec = "read_vfg" THEN ReadVfg(dot_file, p) ELSE FromFile(dot_file)
         IN  IF r.err # "none"
             THEN Raise(r.err) /\ UNCHANGED <<graph, parsed>>
             ELSE /\ graph' = r.graph
                  /\ parsed' = Append(parsed, r.graph)
                  /\ pc' = IF parsed = <<>> THEN "write" ELSE "done"
                  /\ err' = err
    /\ UNCHANGED <<gvars, avars, bvars, mvars, codec, dot_file, output, dvars, rvars, pvars, hvars>>

\* VFG.write(output_file) or Graph.write(filename)
WriteDot ==
    /\ pc = "write"
    /\ LET w == IF codec = "read_vfg" THEN VfgWrite(graph) ELSE GraphWrite(graph)
       IN  IF w.err # "none"
           THEN Raise(w.err) /\ UNCHANGED <<dot_file, output>>
           ELSE /\ output' = Append(output, w.text)
                /\ IF output = <<>>
                   THEN pc' = "write" /\ dot_file' = dot_file
                   ELSE pc' = "read" /\ dot_file' = w.text
                /\ err' = err
    /\ UNCHANGED <<gvars, avars, bvars, mvars, codec, graph, parsed, dvars, rvars, pvars, hvars>>

DotNext == ReadDot \/ WriteDot
SpecDot == DotInit /\ [][DotNext]_vars

\* The nodes with their attributes and the edges of a parsed graph, as sets.
NodesOf(g) == {g.nodes[i] : i \in 1..Len(g.nodes)}
EdgesOf(g) == {g.edges[i] : i \in 1..Len(g.edges)}
SameGraph(a, b) == NodesOf(a) = NodesOf(b) /\ EdgesOf(a) = EdgesOf(b)

\* C15: round trip: when a well-formed file has been parsed, the graph has
\* been serialized and the output has been parsed again, the second parse
\* has succeeded and its graph has the same node ids and attributes and the
\* same edge set as the first one; neither the writer nor the second parse
\* raises.
RoundTripYieldsSameGraph ==
    (parsed # <<>> /\ pc \in {"done", "error"}) =>
        /\ pc = "done"
        /\ Len(parsed) = 2
        /\ SameGraph(parsed[1], parsed[2])

\* read_vfg has raised on the text VFG.write wrote for a graph it had parsed.
SecondParseRaised ==
    /\ codec = "read_vfg" /\ Len(parsed) = 1 /\ Len(output) = 2
    /\ dot_file = output[2]
    /\ pc = "error" /\ err = "IndexError"

\* Graph.write has raised on a graph Graph.from_file had parsed.
GraphWriteRaised ==
    /\ codec = "Graph" /\ Len(parsed) = 1 /\ output = <<>>
    /\ pc = "error" /\ err = "ValueError"

\* Only a file without a node line comes through the round trip.
RoundTripOnlyWithoutNodes ==
    pc = "done" => (parsed[1] = NoGraph /\ parsed[2] = NoGraph)

\* The ID in the label of a written node line ("{", type, " ID: ", id, ...).
LineId(line) == IF Len(line.label) >= 4 /\ line.label[3] = IdMark
                THEN IntOf(line.label[4]) ELSE -1
NodesInOrder(text) ==
    \/ \A i \in 1..Len(text.nodes) : \A j \in (i + 1)..Len(text.nodes) :
          text.nodes[i].name.hex < text.nodes[j].name.hex
    \/ \A i \in 1..Len(text.nodes) : \A j \in (i + 1)..Len(text.nodes) :
          LineId(text.nodes[i]) < LineId(text.nodes[j])
EdgesInOrder(text) ==
    \A i \in 1..Len(text.edges) : \A j \in (i + 1)..Len(text.edges) :
        \/ text.edges[i].source.hex < text.edges[j].source.hex
        \/ /\ text.edges[i].source.hex = text.edges[j].source.hex
           /\ text.edges[i].target.hex <= text.edges[j].target.hex

\* C16: serialization is deterministic: every text written has its node
\* lines in increasing order of the node id (of the name, or of the ID in the
\* label) and its edge lines in increasing (source, target) order, and the
\* two texts written for the unchanged graph are the same.
WriteIsSortedAndRepeatable ==
    /\ \A k \in 1..Len(output) : NodesInOrder(output[k]) /\ EdgesInOrder(output[k])
    /\ Len(output) = 2 => output[1] = output[2]

\* VFG.write has written the node lines in another order than that of the ids.
WroteNodesOutOfOrder ==
    /\ codec = "read_vfg" /\ Len(output) = 2
    /\ ~NodesInOrder(output[2])

\* VFG.write has written the edge lines out of (source, target) order.
WroteEdgesOutOfOrder ==
    /\ codec = "read_vfg" /\ Len(output) = 2
    /\ ~EdgesInOrder(output[2])

\* Two writes of the unchanged object give the same text.
TwoWritesAgree == Len(output) = 2 => output[1] = output[2]

\* ------------------------------------------------------------ termination
\* The nodes that make the fixpoint loops of extract_model turn: a call
\* site with a parameter and the call that takes it, the formal parameter of
\* the callee, and a store.
\*   T %x                    ActualParm  label "%x"
\*   %r = call T @f(T %x)    ActualRet   params ("%x",)
\*   T %a                    FormalParm  label "%a"
\*   store T %v, T* %e       Store       "%v → %e"
LoopNodes ==
    << Node("ActualParmVFGNode", <<"T", " ", "x">>, <<"x">>, NoAttr, NoAttr, 1),
      Node("ActualRetVFGNode", <<"r", "=", "f", "(", "x", ")">>,
           <<"r", "=", "f", "(", "x", ")">>, <<(<<"x">>)>>, NoAttr, 1),
      Node("FormalParmVFGNode", <<"T", " ", "a">>, <<"a">>, NoAttr, NoAttr, 0),
      Node("StoreVFGNode", <<"s", "v", "e">>, <<"v", Arrow, "e">>, NoAttr, NoAttr, 0) >>

\* extract_model(vfg, ids) on a graph of call nodes, on a graph of Gep
\* nodes, or on a graph of idiom nodes.
LoopInit ==
    /\ \/ /\ \E g \in InitGraphs(NumNodes, 1) : LoadGraph(NumNodes, g)
          /\ \E c \in Choices(LoopNodes) : LoadNodes(LoopNodes, c)
          /\ ids = {1}
       \/ /\ \E g \in InitGraphs(NumNodes, MaxModelEdges) : LoadGraph(NumNodes, g)
          /\ LoadNodes(IdiomNodes, [n \in 1..NumNodes |-> 2])
          /\ ids \in {{n} : n \in 1..NumNodes}
       \/ /\ \E g \in InitGraphs(NumNodes - 1, 1) : LoadGraph(NumNodes, g)
          /\ \E c \in Choices(IdiomNodes) : LoadNodes(IdiomNodes, c)
          /\ ids = {1}
    /\ NoDfs /\ NoBuilder /\ NoCodec /\ NoOpt
    /\ call = NoCall /\ rev = [e \in EdgeIds |-> 0]
    /\ pre = [edges |-> edges, esrc |-> esrc, etgt |-> etgt]
    /\ subNodes = {} /\ subEdges = {}
    /\ scan = {} /\ disc = {} /\ cur = 0 /\ round = 0 /\ it = 0
    /\ pc = "parm_ret" /\ err = "none"

\* extract_model is one sequential call: while it has not ended it takes
\* its next step.
SpecLoops == LoopInit /\ [][ExtractNext]_vars /\ WF_vars(ExtractNext)

\* extract_model has returned or has raised.
Ended == pc \in {"done", "error"}

\* C17: every fixpoint loop of extract_model (parameter-to-return and
\* return-to-parameter stitching, the ActualParm -> FormalParm disconnection,
\* the growth of the seed set, the Gep-Gep fusion) is left after finitely
\* many turns on every graph and seed set: extract_model ends.
ExtractModelTerminates == <>Ended

\* extract_model has returned after the stitcher had added an edge and the
\* seed set had grown: the stitch loop and the outer loop have turned again.
ReturnedAfterLoopsTurned ==
    /\ pc = "done"
    /\ edges \ pre.edges # {}
    /\ Cardinality(ids) > 1

\* ------------------------------------------------- the edges of the stitcher
\* The edges from p to r the running stitcher run has added.
Added(p, r) == {e \in edges \ pre.edges : esrc[e] = p /\ etgt[e] = r}
HadEdge(p, r) == \E e \in pre.edges : pre.esrc[e] = p /\ pre.etgt[e] = r
ParmRetPairs ==
    {pr \in nodes \X nodes : ntype[pr[1]] = "ActualParmVFGNode" /\ ntype[pr[2]] = "ActualRetVFGNode"}

\* C18: over a whole run of the stitcher at most one edge p -> r is added for
\* every pair of an ActualParm node p and an ActualRet node r, and none when
\* the graph had an edge p -> r before the run; also when several argument
\* names of r match the node p.
StitchAddsAtMostOneEdgePerPair ==
    \A pr \in ParmRetPairs :
        /\ Cardinality(Added(pr[1], pr[2])) <= 1
        /\ HadEdge(pr[1], pr[2]) => Added(pr[1], pr[2]) = {}

\* A run of the stitcher has returned and has added two edges to one pair.
StitchAddedParallelEdges ==
    /\ pc = "stitched"
    /\ \E pr \in ParmRetPairs : Cardinality(Added(pr[1], pr[2])) > 1

\* A pair that had its edge before the run gets none.
StitchAddsNoEdgeToLinkedPair ==
    \A pr \in ParmRetPairs : HadEdge(pr[1], pr[2]) => Added(pr[1], pr[2]) = {}

\* The function and the basic block of the node are known.
SiteKnown(n) == site[n] # 0

\* C19: every edge the stitcher adds goes from an ActualParm node to an
\* ActualRet node of the same call site: both have a known function and
\* basic block, these are equal, and the name of the parameter occurs in the
\* call text of the return; a node without known function or basic block
\* gets no new edge, and the stitcher removes no edge.
StitchLinksOnlyKnownCallSites ==
    /\ \A e \in edges \ pre.edges :
          /\ ntype[esrc[e]] = "ActualParmVFGNode" /\ ntype[etgt[e]] = "ActualRetVFGNode"
          /\ SiteKnown(esrc[e]) /\ SiteKnown(etgt[e])
          /\ site[esrc[e]] = site[etgt[e]]
          /\ IsSubstr(label[esrc[e]], ir[etgt[e]])
    /\ \A e \in pre.edges : e \in edges /\ esrc[e] = pre.esrc[e] /\ etgt[e] = pre.etgt[e]

\* A run of the stitcher has returned and has linked two nodes whose
\* function and basic block are not known.
StitchLinkedUnknownSites ==
    /\ pc = "stitched"
    /\ \E e \in edges \ pre.edges : ~SiteKnown(esrc[e]) /\ ~SiteKnown(etgt[e])

\* What holds of every edge the stitcher adds: it goes from an ActualParm
\* node to an ActualRet node with the same (function, basic block), known or
\* not, and the stitcher removes no edge.
StitchLinksEqualSites ==
    /\ \A e \in edges \ pre.edges :
          /\ ntype[esrc[e]] = "ActualParmVFGNode" /\ ntype[etgt[e]] = "ActualRetVFGNode"
          /\ site[esrc[e]] = site[etgt[e]]
    /\ \A e \in pre.edges : e \in edges /\ esrc[e] = pre.esrc[e] /\ etgt[e] = pre.etgt[e]

\* ------------------------------------------------------- chains of Gep nodes
\* The graph extract_model was called on.
PreGraph ==
    [edges |-> pre.edges, esrc |-> pre.esrc, etgt |-> pre.etgt,
     adj |-> [n \in Names |-> {e \in pre.edges : pre.esrc[e] = n \/ pre.etgt[e] = n}],
     ok |-> TRUE]
PreGepEdges ==
    {e \in pre.edges : ntype[pre.esrc[e]] = "GepVFGNode" /\ ntype[pre.etgt[e]] = "GepVFGNode"}

\* The chains: the Gep nodes c[1] -> c[2] -> ... -> c[N], N >= 2, joined by
\* one edge each, when these are all the Gep -> Gep edges of the graph and
\* the nodes are in the slice of the seeds.
GepChains ==
    {c \in UNION {[1..k -> nodes] : k \in 2..MaxNodes} :
        /\ \A i \in 1..Len(c) : \A j \in 1..Len(c) : c[i] = c[j] => i = j
        /\ \A i \in 1..(Len(c) - 1) :
              Cardinality({e \in PreGepEdges : pre.esrc[e] = c[i] /\ pre.etgt[e] = c[i + 1]}) = 1
        /\ \A e \in PreGepEdges :
              \E i \in 1..(Len(c) - 1) : pre.esrc[e] = c[i] /\ pre.etgt[e] = c[i + 1]
        /\ \A i \in 1..Len(c) : c[i] \in Subgraph(PreGraph, ids).nodes}

\* The loop of _merge_gep_gep is left: the turn that found no edge has ended.
GepGepLeft == pc = "gep_gep" /\ pc' = "gep_ls"

\* A fusion: a turn of the loop that is followed by another one.
GepGepFused == pc = "gep_gep" /\ pc' = "gep_gep"

\* At the exit of the loop: it - 1 fusions, one Gep of the chain with edges,
\* no Gep -> Gep edge in the slice.
ChainCollapsed(c) ==
    /\ it - 1 = Len(c) - 1
    /\ Cardinality({i \in 1..Len(c) : adj[c[i]] # {}}) = 1
    /\ \A e \in subEdges : ~(ntype[esrc[e]] = "GepVFGNode" /\ ntype[etgt[e]] = "GepVFGNode")

\* The fusion has re-attached the edges above the Gep s and disconnected it.
Spliced(c) ==
    \E i \in 1..(Len(c) - 1) :
        /\ adj[c[i]] # {} /\ adj'[c[i]] = {}
        /\ \A u \in {esrc[e] : e \in InEdges(Cur, c[i])} :
              \E j \in (i + 1)..Len(c) : \E e \in edges' : esrc'[e] = u /\ etgt'[e] = c[j]

\* C20: on a slice that holds a chain of N consecutive Gep nodes the Gep-Gep
\* fusion performs exactly N - 1 fusions, each of which disconnects the upper
\* Gep after its upstream edges have been re-attached to the lower Gep, and
\* when the loop is left exactly one Gep of the chain has edges and no edge
\* of the slice has a Gep node at both ends.
GepChainCollapsesInNMinusOneFusions ==
    [][\A c \in GepChains :
          /\ GepGepFused => Spliced(c)
          /\ GepGepLeft => ChainCollapsed(c)']_vars

\* The loop has been left after fewer than N - 1 fusions on the chain, with
\* Gep -> Gep edges of the chain still in the graph.
GepChainLeftUnfused ==
    /\ pc = "gep_ls"
    /\ \E c \in GepChains : it - 1 < Len(c) - 1
    /\ \E e \in edges : ntype[esrc[e]] = "GepVFGNode" /\ ntype[etgt[e]] = "GepVFGNode"

\* What holds: when no seed is a Gep of the chain above its last one, and an
\* edge of another node comes into the chain or leaves its last Gep, the
\* chain collapses as C20 says.
GepChainCollapsesWhenSeedsStay ==
    [][\A c \in GepChains :
          (/\ \A i \in 1..(Len(c) - 1) : c[i] \notin ids
           /\ \E e \in pre.edges \ PreGepEdges :
                 \/ \E i \in 1..Len(c) : pre.etgt[e] = c[i]
                 \/ pre.esrc[e] = c[Len(c)]) =>
              /\ GepGepFused => Spliced(c)
              /\ GepGepLeft => ChainCollapsed(c)']_vars

\* ------------------------------------------------ fusions on four nodes
\* extract_model(vfg, [1]) on the graphs of an Addr node, a Load or Store
\* node and two more nodes (two Gep, two Copy, or a Copy and a Store), with
\* at most MaxFuseEdges edges.
FuseKinds == { <<1, 3, 2, 2>>, <<1, 4, 2, 2>>, <<1, 3, 5, 5>>, <<1, 4, 5, 4>> }

FuseInit ==
    /\ \E g \in InitGraphs(MaxNodes, MaxFuseEdges) : LoadGraph(MaxNodes, g)
    /\ \E c \in FuseKinds : LoadNodes(IdiomNodes, c)
    /\ NoDfs /\ NoBuilder /\ NoCodec /\ NoOpt
    /\ call = NoCall /\ rev = [e \in EdgeIds |-> 0]
    /\ pre = [edges |-> edges, esrc |-> esrc, etgt |-> etgt]
    /\ subNodes = {} /\ subEdges = {}
    /\ ids = {1}
    /\ scan = {} /\ disc = {} /\ cur = 0 /\ round = 0 /\ it = 0
    /\ pc = "parm_ret" /\ err = "none"

SpecFuse == FuseInit /\ [][ExtractNext]_vars

\* The nodes with an edge to n, the nodes n has an edge to.
UpperOf(n) == {esrc[e] : e \in InEdges(Cur, n)}
HasEdgeAfter(u, t) == \E x \in edges' : esrc'[x] = u /\ etgt'[x] = t

\* The edges Gep -> Load/Store of the slice _merge_gep_load_store took.  The
\* loop adds edges into Load and Store nodes only and removes none, so in its
\* last turn a Gep node has the upper neighbours it had at the start.
GepLoadStoreEdges ==
    {e \in subEdges : ntype[esrc[e]] = "GepVFGNode"
                      /\ ntype[etgt[e]] \in {"LoadVFGNode", "StoreVFGNode"}}

\* _merge_gep_load_store returns.
GepLoadStoreLeft == pc = "gep_ls" /\ pc' = "copy"

\* C21: for every edge from a Gep node g to a Load or Store node t of the
\* seed subgraph at the start of _merge_gep_load_store, after the pass every
\* node that was an upper neighbour of g has an edge to t, and g has no edge
\* left.
GepLoadStoreSplicesUppers ==
    [][GepLoadStoreLeft =>
          \A e \in GepLoadStoreEdges :
              /\ \A u \in UpperOf(esrc[e]) : HasEdgeAfter(u, etgt[e])
              /\ adj'[esrc[e]] = {}]_vars

\* The last turn of the loop is through: the pass has added the edge u -> t
\* for the upper neighbour u of a Gep node, and u, a Gep node with an edge of
\* its own to a Load or Store node of the slice, is to be disconnected too.
GepUpperToBeDisconnected ==
    /\ pc = "gep_ls" /\ scan = {}
    /\ \E e \in GepLoadStoreEdges : \E u \in (UpperOf(esrc[e]) \cap disc) \ {esrc[e]} :
         \E x \in edges \ pre.edges : esrc[x] = u /\ etgt[x] = etgt[e]

\* What the pass does keep: every Gep source of such an edge is left without
\* edges, and every upper neighbour that is not itself disconnected has an
\* edge to the target.
GepLoadStoreSplicesKeptUppers ==
    [][GepLoadStoreLeft =>
          \A e \in GepLoadStoreEdges :
              /\ \A u \in UpperOf(esrc[e]) \ disc : HasEdgeAfter(u, etgt[e])
              /\ adj'[esrc[e]] = {}]_vars

\* ------------------------------------------------------------ Copy fusion
\* The edges Copy -> Store/ActualParm of the slice _merge_copy took.
CopyEdges ==
    {e \in subEdges : ntype[esrc[e]] = "CopyVFGNode"
                      /\ ntype[etgt[e]] \in {"StoreVFGNode", "ActualParmVFGNode"}}

\* The upper neighbours the node n had in that slice, which holds every edge
\* of n when n is one of its nodes; edge objects keep their ends when they
\* are removed.
SliceUpperOf(n) == {esrc[x] : x \in {y \in subEdges : etgt[y] = n}}

\* _merge_copy returns.
CopyLeft == pc = "copy" /\ pc' = "reverse"

\* C22: for every edge from a Copy node c to a Store or ActualParm node t of
\* the seed subgraph at the start of _merge_copy, after the pass every node
\* that was an upper neighbour of c at the start of the pass has an edge to
\* t, also when c has several such targets, and c has no edge left.
CopySplicesUppersToEveryTarget ==
    [][CopyLeft =>
          \A e \in CopyEdges :
              /\ \A u \in SliceUpperOf(esrc[e]) : HasEdgeAfter(u, etgt[e])
              /\ adj'[esrc[e]] = {}]_vars

\* The pass is through for a Copy node with an upper neighbour and two
\* targets: one target has got the edge from the upper neighbour, the other
\* one has not.
CopySplicedToOneTargetOnly ==
    /\ pc = "copy" /\ scan = {}
    /\ \E e \in CopyEdges : \E f \in CopyEdges : \E u \in SliceUpperOf(esrc[e]) \ {esrc[e]} :
         /\ esrc[f] = esrc[e] /\ etgt[f] # etgt[e]
         /\ u \notin {etgt[e], etgt[f]}
         /\ \E x \in edges : esrc[x] = u /\ etgt[x] = etgt[e]
         /\ ~\E x \in edges : esrc[x] = u /\ etgt[x] = etgt[f]

\* What the pass does keep: every Copy source of such an edge is left
\* without edges, and each of its upper neighbours has an edge to one of its
\* targets at least, unless the upper neighbour is a Copy node the pass
\* disconnects as well.
CopySplicesUppersToSomeTarget ==
    [][CopyLeft =>
          \A e \in CopyEdges :
              /\ \A u \in SliceUpperOf(esrc[e]) :
                    \/ \E f \in CopyEdges : esrc[f] = esrc[e] /\ HasEdgeAfter(u, etgt[f])
                    \/ \E f \in CopyEdges : esrc[f] = u
              /\ adj'[esrc[e]] = {}]_vars

\* ------------------------------------------------- revisits of _find_paths
\* The paths _find_paths is called with in the direction d: the paths without
\* a repeated node that start ("f") or end ("b") at a source/sink node with a
\* neighbour in that direction and go along the links of the nodes.
FoundPaths(d) ==
    {p \in UNION {[1..k -> nodes] : k \in 1..NumNodes} :
        /\ \A i \in 1..Len(p) : \A j \in 1..Len(p) : p[i] = p[j] => i = j
        /\ \A i \in 1..(Len(p) - 1) : p[i + 1] \in lower_nodes[p[i]]
        /\ (IF d = "f" THEN p[1] ELSE p[Len(p)]) \in source_sink_vfg_nodes
        /\ (IF d = "f" THEN lower_nodes[p[1]] ELSE upper_nodes[p[Len(p)]]) # {}}

\* `lower_node not in current_path` is false for a neighbour of the end of p:
\* "Loop detected!" is logged.
RevisitAt(p, d) == \E m \in PathNeighbours(p, d) : \E i \in 1..Len(p) : p[i] = m

InPaths(p) == \E i \in 1..Len(paths) : paths[i] = p

ReturnedPathsEndAtLeaves ==
    pc = "done" =>
        \A i \in 1..Len(paths) :
            /\ \A n \in Names : Occurrences(paths[i], n) <= 1
            /\ \E d \in {"f", "b"} :
                 paths[i] \in FoundPaths(d) /\ PathNeighbours(paths[i], d) = {}

\* ------------------------------------------------------------ seed growth
\* The `while True` loop of extract_model is left.
SeedLoopLeft == pc = "grow" /\ pc' = "gep_gep"

\* C27: when the seed-growth loop of extract_model exits, the seed set holds
\* every initial seed, every Store node without outgoing edge of
\* subgraph(seeds) and every Store node that is a direct lower neighbour of
\* an Addr node of subgraph(seeds); the seed set only grows during the loop.
SeedsGrowToStoreClosure ==
    [][/\ ids \subseteq ids'
       /\ SeedLoopLeft =>
            LET N == Subgraph(Cur, ids').nodes IN
            /\ \A n \in N :
                 (ntype[n] = "StoreVFGNode" /\ ~\E e \in edges : esrc[e] = n) => n \in ids'
            /\ \A e \in edges :
                 (esrc[e] \in N /\ ntype[esrc[e]] = "AddrVFGNode"
                  /\ ntype[etgt[e]] = "StoreVFGNode") => etgt[e] \in ids']_vars

\* The loop is left with more seeds than extract_model was given: a leaf
\* Store and a Store below an Addr node of the slice are among them.
SeedsGrewByStores ==
    /\ pc = "gep_gep" /\ it = 0 /\ Cardinality(ids) > MaxSeeds
    /\ \E n \in ids : ntype[n] = "StoreVFGNode" /\ ~\E e \in edges : esrc[e] = n
    /\ \E e \in edges : ntype[esrc[e]] = "AddrVFGNode" /\ ntype[etgt[e]] = "StoreVFGNode"
                        /\ etgt[e] \in ids

\* ---------------------------------------------- Model._opt (model_builder)
\* SHORT_TYPE of model_builder/vfg.py: the symbol VFGNode.t of a node type.
ShortType(type) ==
    CASE type = "Addr" -> "a"
      [] type = "Load" -> "l"
      [] type = "Store" -> "s"
      [] type = "Gep" -> "g"
      [] type = "Copy" -> "c"
      [] type = "FormalRet" -> "<"
      [] type = "NullPtr" -> "n"

\* ''.join(vfg_node.t for vfg_node in vfg_path)
Encoding(p) == [i \in 1..Len(p) |-> ShortType(ntype[p[i]])]

SymbolAt(s, i) == IF i \in 1..Len(s) THEN s[i] ELSE ""

\* The run of g that g+ takes from the position i.
RECURSIVE GRun(_, _)
GRun(s, i) == IF SymbolAt(s, i) = "g" THEN 1 + GRun(s, i + 1) ELSE 0

\* PATTERNS: where the match of one pattern that starts at the symbol i
\* ends (the number of symbols of s up to its end, m.end()), 0 when the
\* pattern does not match there.
PatternEnd(pattern, s, i) ==
    CASE pattern = "AGL" ->
           IF SymbolAt(s, i - 1) = "a" /\ GRun(s, i) >= 1 /\ SymbolAt(s, i + GRun(s, i)) = "l"
           THEN i + GRun(s, i) ELSE 0
      [] pattern = "LGL" ->
           IF SymbolAt(s, i) = "l" /\ GRun(s, i + 1) >= 1
              /\ SymbolAt(s, i + 1 + GRun(s, i + 1)) = "l"
           THEN i + 1 + GRun(s, i + 1) ELSE 0
      [] pattern = "GS" ->
           IF GRun(s, i) >= 1 /\ SymbolAt(s, i + GRun(s, i)) = "s"
           THEN i + GRun(s, i) ELSE 0
      [] pattern = "AS" ->
           IF SymbolAt(s, i) = "a" /\ SymbolAt(s, i + 1) = "s" THEN i + 1 ELSE 0
      [] pattern = "CS" ->
           IF SymbolAt(s, i) = "c" /\ SymbolAt(s, i + 1) = "s" THEN i + 1 ELSE 0
      [] pattern = "P" ->
           LET J == {j \in i..Len(s) : SymbolAt(s, j) = "p" /\ SymbolAt(s, j + 1) = "<"}
           IN IF J = {} THEN 0 ELSE CHOOSE j \in {x + 1 : x \in J} : \A x \in J : x + 1 <= j
      [] pattern = "." ->
           IF i \in 1..Len(s) THEN i ELSE 0

\* The alternatives of Model.pattern, in the order of PATTERNS.values().
PatternOrder == <<"AGL", "LGL", "GS", "AS", "CS", "P", ".">>

\* A variant: the last alternative that matches is taken.
MatchAtLastAlternative(s, i) ==
    LET k == CHOOSE j \in 1..Len(PatternOrder) :
                 /\ PatternEnd(PatternOrder[j], s, i) # 0
                 /\ \A q \in (j + 1)..Len(PatternOrder) : PatternEnd(PatternOrder[q], s, i) = 0
    IN [pattern |-> PatternOrder[k], start |-> i - 1, end |-> PatternEnd(PatternOrder[k], s, i)]

\* The match object of Model.pattern at the symbol i: the first alternative
\* that matches there.
MatchAt(s, i) ==
    LET k == CHOOSE j \in 1..Len(PatternOrder) :
                 /\ PatternEnd(PatternOrder[j], s, i) # 0
                 /\ \A q \in 1..(j - 1) : PatternEnd(PatternOrder[q], s, i) = 0
    IN [pattern |-> PatternOrder[k], start |-> i - 1, end |-> PatternEnd(PatternOrder[k], s, i)]

\* Where finditer looks for the next match: the end of the last one.
ScanPos == IF matched = <<>> THEN 0 ELSE matched[Len(matched)].end

\* list(self.pattern.finditer(encoding)): the next match; every symbol
\* starts a match of the last alternative at least.
FindNext ==
    /\ pc = "scan" /\ ScanPos < Len(paths[1])
    /\ matched' = Append(matched, MatchAt(Encoding(paths[1]), ScanPos + 1))
    /\ UNCHANGED <<gvars, avars, bvars, cvars, dvars, rvars, pvars, hvars, pc, err,
                   need_reverse, model_path, model_nodes, model_lower>>

\* The iterator is exhausted.
FindEnd ==
    /\ pc = "scan" /\ ScanPos = Len(paths[1])
    /\ pc' = "scanned"
    /\ UNCHANGED <<gvars, avars, bvars, cvars, mvars, dvars, rvars, pvars, hvars, err>>

\* Model._opt: one turn of `for m in self.pattern.finditer(...)`.
\*  - AGL, LGL, GS call _get_vfg_path_slice, whose logger.debug reads the
\*    variable vfg_path_slice of _opt before any branch has bound it:
\*    NameError; once the branch P has bound it, get_node is reached.
\*  - get_node builds a ModelNode before it looks up Model.nodes, and
\*    ModelNode._get_info reads vfg_node.var (AGL, LGL, GS), .from_var (CS)
\*    or .compiled_info (AS, Single), which VFGNode never has: AttributeError.
\*  - P binds vfg_path_slice and appends nothing.
\* The code after the loop (model_path.reverse(), add_lower_nodes) is reached
\* only when every match is a match of P.
OptMatch ==
    /\ pc = "opt" /\ ScanPos < Len(paths[1])
    /\ LET m == MatchAt(Encoding(paths[1]), ScanPos + 1)
           bound == \E k \in 1..Len(matched) : matched[k].pattern = "P"
       IN /\ matched' = Append(matched, m)
          /\ need_reverse' = (need_reverse \/ m.pattern \in {"GS", "AS"})
          /\ IF m.pattern = "P" THEN UNCHANGED <<pc, err>>
             ELSE IF m.pattern \in {"AGL", "LGL", "GS"} /\ ~bound THEN Raise("NameError")
             ELSE Raise("AttributeError")
    /\ UNCHANGED <<gvars, avars, bvars, cvars, dvars, rvars, pvars, hvars,
                   model_path, model_nodes, model_lower>>

OptNext == FindNext \/ FindEnd \/ OptMatch

\* The node types of the paths.
OptTypes == {"Addr", "Load", "Store", "Gep", "Copy", "FormalRet"}

\* One path over the nodes 1..k, in the order of the ids or against it:
\* the matches of its encoding are listed, or _opt(path) is called.
OptInit ==
    /\ \E k \in 1..MaxNodes :
         /\ nodes = 1..k
         /\ ntype \in [Names -> OptTypes \cup {"NullPtr"}]
         /\ \A n \in Names : ntype[n] = "NullPtr" <=> n > k
         /\ paths \in {<<[i \in 1..k |-> i]>>, <<[i \in 1..k |-> k + 1 - i]>>}
    /\ edges = {} /\ esrc = [e \in EdgeIds |-> NoNode] /\ etgt = [e \in EdgeIds |-> NoNode]
    /\ adj = [n \in Names |-> {}]
    /\ label = [n \in Names |-> <<>>] /\ ir = [n \in Names |-> <<>>]
    /\ params = [n \in Names |-> NoAttr] /\ vname = [n \in Names |-> NoAttr]
    /\ site = [n \in Names |-> 0]
    /\ lower_nodes = [n \in Names |-> {}] /\ upper_nodes = [n \in Names |-> {}]
    /\ parm = [n \in Names |-> NoAttr] /\ args = [n \in Names |-> NoAttr]
    /\ source_sink_vfg_nodes = {} /\ callstack = <<>> /\ todo = {}
    /\ run = [node |-> NoNode, dirs |-> <<>>]
    /\ NoDfs /\ NoPipeline /\ NoHistory /\ NoCodec /\ NoOpt
    /\ subNodes = {} /\ subEdges = {}
    /\ pc \in {"scan", "opt"} /\ err = "none"

SpecOpt == OptInit /\ [][OptNext]_vars

\* The order of priority the claim names.
ClaimedOrder == <<"AGL", "LGL", "GS", "AS", "CS", ".">>

\* C24: path classification scans the encoding from left to right and takes,
\* at each position, the first pattern that matches in the order AGL, LGL,
\* GS, AS, CS, single symbol; the matches are disjoint and cover every node
\* of the path exactly once, the last one ending at the end of the string.
ClassificationIsOrderedCover ==
    pc \in {"scan", "scanned"} =>
        LET s == Encoding(paths[1]) IN
        /\ \A k \in 1..Len(matched) :
             LET m == matched[k] IN
             /\ m.start = (IF k = 1 THEN 0 ELSE matched[k - 1].end)
             /\ m.end > m.start /\ m.end <= Len(s)
             /\ \E j \in 1..Len(ClaimedOrder) :
                  /\ ClaimedOrder[j] = m.pattern
                  /\ PatternEnd(m.pattern, s, m.start + 1) = m.end
                  /\ \A q \in 1..(j - 1) : PatternEnd(ClaimedOrder[q], s, m.start + 1) = 0
        /\ pc = "scanned" => ScanPos = Len(s)

\* The scan is through a path of an idiom and of single nodes.
ScannedIdiomAndSingles ==
    /\ pc = "scanned" /\ Len(matched) >= 2
    /\ \E k \in 1..Len(matched) : matched[k].pattern # "." /\ matched[k].end - matched[k].start >= 2
    /\ \E k \in 1..Len(matched) : matched[k].pattern = "."

\* _opt(path) is through: it has returned or raised.
OptEnded == pc \in {"returned", "error"}

\* The encoding is an a, one or more g, and an l.
IsAddrGepsLoad(s) ==
    Len(s) >= 3 /\ s[1] = "a" /\ s[Len(s)] = "l" /\ \A i \in 2..(Len(s) - 1) : s[i] = "g"

AddrGepLoadIsSingleThenAGL ==
    (IsAddrGepsLoad(Encoding(paths[1])) /\ pc = "scanned") =>
        matched = << [pattern |-> ".", start |-> 0, end |-> 1],
                     [pattern |-> "AGL", start |-> 1, end |-> Len(paths[1])] >>

\* list(self.pattern.finditer(s)), from the symbol i on.
RECURSIVE MatchesFrom(_, _)
MatchesFrom(s, i) ==
    IF i > Len(s) THEN <<>>
    ELSE <<MatchAt(s, i)>> \o MatchesFrom(s, MatchAt(s, i).end + 1)

\* The ids get_node takes for the model nodes of a match: the last VFG node
\* of AGL, LGL, GS and CS, both nodes of AS, the node of a single symbol.
MatchIds(p, m) ==
    IF m.pattern \in {"AGL", "LGL", "GS", "CS"} THEN <<p[m.end]>>
    ELSE IF m.pattern = "AS" THEN <<p[m.start + 1], p[m.end]>>
    ELSE IF m.pattern = "." THEN <<p[m.end]>>
    ELSE <<>>

RECURSIVE IdsOf(_, _)
IdsOf(p, ms) == IF ms = <<>> THEN <<>> ELSE MatchIds(p, ms[1]) \o IdsOf(p, Tail(ms))

\* The model edges the claim names for the path p: between the model nodes
\* that follow each other, against the path when a match is GS, along it
\* otherwise.
ClaimedEdges(p) ==
    LET ms == MatchesFrom(Encoding(p), 1)
        q == IdsOf(p, ms)
        along == {<<q[i], q[i + 1]>> : i \in 1..(Len(q) - 1)}
    IN IF \E k \in 1..Len(ms) : ms[k].pattern = "GS"
       THEN {<<e[2], e[1]>> : e \in along} ELSE along

OptRaisesInFirstTurn ==
    OptEnded =>
        /\ pc = "error" /\ Len(matched) = 1
        /\ err = (IF matched[1].pattern \in {"AGL", "LGL", "GS"} THEN "NameError"
                  ELSE "AttributeError")
        /\ need_reverse = (matched[1].pattern \in {"GS", "AS"})
        /\ model_path = <<>> /\ model_nodes = {} /\ model_lower = {}
\* ---------------------------------------------- confluence of Gep-Gep fusion
\* The label a chain of k Gep nodes is fused to: the label of the first one,
\* then the element name of each following one (every Gep node is loaded with
\* the label of the Gep node of IdiomNodes).
RECURSIVE ChainLabel(_)
ChainLabel(k) ==
    IF k = 1 THEN IdiomNodes[2].label
    ELSE GepGepLabel(ChainLabel(k - 1), IdiomNodes[2].label)

\* The nodes above n that are no Gep nodes, in the graph extract_model was
\* called on.
PreNonGepUppers(n) ==
    {pre.esrc[e] : e \in {x \in pre.edges : pre.etgt[x] = n /\ ntype[pre.esrc[x]] # "GepVFGNode"}}

\* The chain c has been fused to its last Gep.
FusedToLast(c) ==
    /\ \A i \in 1..(Len(c) - 1) : adj[c[i]] = {}
    /\ {esrc[e] : e \in InEdges(Cur, c[Len(c)])} = PreNonGepUppers(c[1])
    /\ label[c[Len(c)]] = ChainLabel(Len(c))

\* C28: Gep-Gep fusion is confluent on a Gep chain: in whatever order the
\* Gep -> Gep edges of the slice are scanned and fused, when the loop is left
\* the surviving Gep is the last one of the chain, the nodes above it are the
\* nodes above the first Gep of the chain that are no Gep nodes, and its label
\* is the base pointer followed by the element names in path order.
GepGepFusionIsConfluent ==
    [][GepGepLeft => \A c \in GepChains : FusedToLast(c)']_vars

\* The loop has been left with the last edge of a chain still in the graph
\* and the label of the last Gep as it was loaded.
GepChainLastEdgeLeft ==
    /\ pc = "gep_ls"
    /\ \E c \in GepChains :
          /\ Len(c) > 2
          /\ \E e \in edges : esrc[e] = c[Len(c) - 1] /\ etgt[e] = c[Len(c)]
          /\ label[c[Len(c)]] = IdiomNodes[2].label

\* What holds: the chain is fused to its last Gep, whatever the order, when
\* no seed is a Gep of the chain above its last one and the only nodes above
\* the Gep nodes of the chain below the first are Gep nodes of the chain.
GepGepFusionIsConfluentWhenSeedsStay ==
    [][\A c \in GepChains :
          (/\ \A i \in 1..(Len(c) - 1) : c[i] \notin ids
           /\ \A i \in 2..Len(c) : PreNonGepUppers(c[i]) = {}) =>
              (GepGepLeft => FusedToLast(c)')]_vars

\* ------------------------------------------- the adjacency of the base graph
\* edge.reverse(), e any edge object the caller holds.
ApiReverseEdge ==
    /\ pc = "api" /\ call.n < MaxCalls
    /\ \E e \in Created :
         /\ Reverse({e})
         /\ err' = "none"
         /\ Called("reverse", e \notin edges, FALSE,
                   [Cur EXCEPT !.esrc[e] = etgt[e], !.etgt[e] = esrc[e]], nodes)
    /\ UNCHANGED <<nodes, edges, adj, avars, bvars, cvars, mvars, dvars, rvars, pvars, pre, pc>>

AdjNext == ApiNext \/ ApiReverseEdge

SpecAdj == ApiInit /\ [][AdjNext]_vars

\* C29: whatever add_edge, remove_edge, disconnect_node, remove_node and
\* edge.reverse calls have been made on the base graph, an edge is in the
\* adjacency set of a node of the graph exactly when it is in the edge set of
\* the graph and has that node as its source or its target.
AdjacencyConsistent ==
    \A n \in nodes : adj[n] = {e \in edges : esrc[e] = n \/ etgt[e] = n}

\* An edge of the graph has been reversed, and a call that followed has
\* removed another edge from a node that is still in the graph.
ReversedThenRemoved ==
    /\ call.n = MaxCalls
    /\ call.op \in {"remove_edge", "disconnect_node", "remove_node"}
    /\ \E e \in edges : rev[e] = 1 /\ esrc[e] # etgt[e]
    /\ \E x \in Created \ edges : esrc[x] \in nodes \/ etgt[x] \in nodes

\* ------------------------------------------------ the frame of get_subgraph
\* C30: get_subgraph is a read-only query: no step of it, up to its return or
\* to the ValueError for an unknown seed id, changes the node set, the edge
\* set, the ends of an edge, the adjacency set of a node or a label of the
\* base graph.
GetSubgraphReadsOnly ==
    [][/\ nodes' = nodes /\ edges' = edges
       /\ esrc' = esrc /\ etgt' = etgt
       /\ adj' = adj /\ label' = label]_vars

\* get_subgraph has returned a subgraph that leaves out a node and an edge
\* of the base graph and holds an edge to a node outside it.
SubgraphReturnedProperPart ==
    /\ pc = "done"
    /\ subNodes # {} /\ subNodes # nodes
    /\ subEdges # {} /\ subEdges # edges
    /\ \E e \in subEdges : esrc[e] \notin subNodes \/ etgt[e] \notin subNodes

\* get_subgraph has raised ValueError for an unknown seed id after the
\* traversals from a known one.
SubgraphFailedAfterTraversal ==
    /\ err = "ValueError"
    /\ forward_visited # {} /\ backward_visited # {}
    /\ edges # {}

\* ------------------------------------------- claims on the graph interface
\* The step is a call of the operation op of the graph interface.
IsCall(op) == call'.n = call.n + 1 /\ call'.op = op

\* No two edge objects of the graph have the same source and the same target.
PairsUnique == \A e \in edges : \A f \in edges :
                   (esrc[e] = esrc[f] /\ etgt[e] = etgt[f]) => e = f

\* C11: edges are identified by their (source, target) pair: add_edge of a
\* pair already present leaves the edge set unchanged, so a graph without two
\* edges of the same source and target has none after add_edge either.
AddEdgeKeepsPairsUnique ==
    [][(IsCall("add_edge") /\ PairsUnique) => PairsUnique']_vars

\* add_edge has been called with both endpoints in the graph, and the graph
\* holds two edge objects of one source and target.
AddEdgeMadeParallelEdge ==
    call.op = "add_edge" /\ ~call.absent /\ ~PairsUnique

\* The edges of the graph that have n as source or as target.
Touching(n) == {e \in edges : esrc[e] = n \/ etgt[e] = n}

\* The graph holds a self-loop.
HasSelfLoop == \E e \in edges : esrc[e] = etgt[e]

\* C12: disconnect_node(n) on an existing node n completes without error and
\* removes exactly the edges that have n as source or as target (a self-loop
\* included) from the edge set and from the adjacency sets of their ends; the
\* nodes stay and every other edge is unchanged.
DisconnectNodeRemovesTouchingEdges ==
    [][(IsCall("disconnect_node") /\ ~call'.absent) =>
          /\ err' = "none"
          /\ nodes' = nodes
          /\ \E n \in nodes :
               /\ edges' = edges \ Touching(n)
               /\ adj' = [m \in Names |-> adj[m] \ Touching(n)]
          /\ \A e \in edges' : esrc'[e] = esrc[e] /\ etgt'[e] = etgt[e]]_vars

\* C12 without the self-loops: on a graph that holds none, disconnect_node
\* does as above.
DisconnectNodeWithoutSelfLoop ==
    [][(IsCall("disconnect_node") /\ ~call'.absent /\ ~HasSelfLoop) =>
          /\ err' = "none"
          /\ nodes' = nodes
          /\ \E n \in nodes :
               /\ edges' = edges \ Touching(n)
               /\ adj' = [m \in Names |-> adj[m] \ Touching(n)]
          /\ \A e \in edges' : esrc'[e] = esrc[e] /\ etgt'[e] = etgt[e]]_vars

\* disconnect_node has raised on an existing node.
DisconnectNodeRaised ==
    call.op = "disconnect_node" /\ ~call.absent /\ call.raised

\* ------------------------------------------------ claims on unknown seeds
\* The adjacency sets VFG.__init__ of model_builder links for the Graph.
GraphLower == [n \in Names |-> {etgt[e] : e \in {x \in edges : esrc[x] = n}} \ {n}]
GraphUpper == [n \in Names |-> {esrc[e] : e \in {x \in edges : etgt[x] = n}} \ {n}]

UnknownSeedFailsExtractGraphKept ==
    (~SeedsKnown /\ pc # "parm_ret") =>
        /\ pc = "error" /\ err = "ValueError"
        /\ edges = pre.edges
        /\ \A e \in edges : esrc[e] = pre.esrc[e] /\ etgt[e] = pre.etgt[e]
        /\ adj = [n \in Names |-> Touching(n)]

\* extract_model has failed on an unknown seed on a graph that holds edges.
UnknownSeedFailedExtract ==
    ~SeedsKnown /\ pc = "error" /\ edges # {}

====
